---- MODULE Spec2Model ----
(***************************************************************************)
(* SSTP and SHIORI/3.0 wire protocols of uka-rs: the byte-cursor parser,   *)
(* the request/response builders, the ordered header bag and the           *)
(* serialisers, modelled over byte sequences (a byte is a number 0..255,   *)
(* a builder string is a sequence of Unicode code points).                 *)
(***************************************************************************)
EXTENDS Integers, Sequences, FiniteSets, TLC

(***************************************************************************)
(* Bounds of the exploration.                                              *)
(***************************************************************************)
MaxCalls == 2
MaxLines == 2
MaxChars == 2
MaxInserts == 3
MaxTasks == 3
MaxOps == 4

(***************************************************************************)
(* Byte literals.                                                          *)
(***************************************************************************)
SP == 32
CR == 13
LF == 10
COLON == 58
CRLF == <<13, 10>>

\* "GET", "NOTIFY", "SEND", "EXECUTE", "GIVE", "COMMUNICATE"
B_GET == <<71, 69, 84>>
B_NOTIFY == <<78, 79, 84, 73, 70, 89>>
B_SEND == <<83, 69, 78, 68>>
B_EXECUTE == <<69, 88, 69, 67, 85, 84, 69>>
B_GIVE == <<71, 73, 86, 69>>
B_COMMUNICATE == <<67, 79, 77, 77, 85, 78, 73, 67, 65, 84, 69>>
\* "SHIORI/3.0", "SHIORI/3", "GET SHIORI/3.0", "NOTIFY SHIORI/3.0"
B_SHIORI_30 == <<83, 72, 73, 79, 82, 73, 47, 51, 46, 48>>
B_SHIORI_3 == <<83, 72, 73, 79, 82, 73, 47, 51>>
B_GET_SHIORI_30 == <<71, 69, 84, 32, 83, 72, 73, 79, 82, 73, 47, 51, 46, 48>>
B_NOTIFY_SHIORI_30 == <<78, 79, 84, 73, 70, 89, 32, 83, 72, 73, 79, 82, 73, 47, 51, 46, 48>>
\* "SSTP/1.0" .. "SSTP/1.4"
B_SSTP_10 == <<83, 83, 84, 80, 47, 49, 46, 48>>
B_SSTP_11 == <<83, 83, 84, 80, 47, 49, 46, 49>>
B_SSTP_12 == <<83, 83, 84, 80, 47, 49, 46, 50>>
B_SSTP_13 == <<83, 83, 84, 80, 47, 49, 46, 51>>
B_SSTP_14 == <<83, 83, 84, 80, 47, 49, 46, 52>>
\* charset names "ASCII", "Shift_JIS", "ISO-2022-JP", "EUC-JP", "UTF-8"
B_ASCII == <<65, 83, 67, 73, 73>>
B_SHIFT_JIS == <<83, 104, 105, 102, 116, 95, 74, 73, 83>>
B_ISO2022JP == <<73, 83, 79, 45, 50, 48, 50, 50, 45, 74, 80>>
B_EUC_JP == <<69, 85, 67, 45, 74, 80>>
B_UTF8 == <<85, 84, 70, 45, 56>>
\* header names "Charset", "Sender", "Script"
B_Charset == <<67, 104, 97, 114, 115, 101, 116>>
B_Sender == <<83, 101, 110, 100, 101, 114>>
B_Script == <<83, 99, 114, 105, 112, 116>>

(***************************************************************************)
(* Results of fallible operations.                                         *)
(***************************************************************************)
Ok(v, p) == [ok |-> TRUE, val |-> v, pos |-> p, err |-> "none"]
Err(e, p) == [ok |-> FALSE, val |-> <<>>, pos |-> p, err |-> e]

(***************************************************************************)
(* Cursor primitives (read_macro).  A cursor is the input and a position   *)
(* (the number of bytes consumed).  A failed read_exact leaves the cursor  *)
(* at the end of the input.                                                *)
(***************************************************************************)
\* a read that reports a short input as a mismatch
read_short_is_mismatch(inp, pos, n) ==
    IF pos + n <= Len(inp)
    THEN Ok(SubSeq(inp, pos + 1, pos + n), pos + n)
    ELSE Err("Io.Other", Len(inp))

read(inp, pos, n) ==
    IF pos + n <= Len(inp)
    THEN Ok(SubSeq(inp, pos + 1, pos + n), pos + n)
    ELSE Err("Io.UnexpectedEof", Len(inp))

read_expect(inp, pos, bytes) ==
    LET r == read(inp, pos, Len(bytes))
    IN  IF ~r.ok THEN r
        ELSE IF r.val = bytes THEN r
        ELSE Err("Io.Other", r.pos)

RECURSIVE read_repeat(_, _, _)
read_repeat(inp, pos, bytes) ==
    LET r == read(inp, pos, Len(bytes))
    IN  IF r.ok /\ r.val = bytes THEN read_repeat(inp, r.pos, bytes)
        ELSE IF r.ok THEN Ok(<<>>, r.pos - Len(bytes))
        ELSE Ok(<<>>, r.pos)

ends_with(buffer, bytes) ==
    /\ Len(buffer) >= Len(bytes)
    /\ SubSeq(buffer, Len(buffer) - Len(bytes) + 1, Len(buffer)) = bytes

RECURSIVE read_until_from(_, _, _, _)
read_until_from(inp, pos, bytes, buffer) ==
    LET r == read(inp, pos, 1)
    IN  IF ~r.ok THEN r
        ELSE LET buf == buffer \o r.val
             IN  IF ends_with(buf, bytes)
                 THEN Ok(SubSeq(buf, 1, Len(buf) - Len(bytes)), r.pos)
                 ELSE read_until_from(inp, r.pos, bytes, buf)

\* a read that seeks back to where it started once the bytes are found
read_until_peeking(inp, pos, bytes) ==
    LET r == read_until_from(inp, pos, bytes, <<>>)
    IN  IF r.ok THEN Ok(r.val, pos) ELSE r

read_until(inp, pos, bytes) == read_until_from(inp, pos, bytes, <<>>)

lookahead(inp, pos, n) ==
    LET r == read(inp, pos, n)
    IN  IF r.ok THEN Ok(r.val, r.pos - n) ELSE r

\* table: a sequence of [bytes, val], in the order of the match arms
MatchArms(table, first, n) ==
    { i \in 1..Len(table) : SubSeq(table[i].bytes, 1, n) = first }

\* the matched arm's literal is read to its end
match_arm(inp, pos, n, arm) ==
    IF Len(arm.bytes) = n THEN Ok(arm.val, pos)
    ELSE LET e == read_expect(inp, pos, SubSeq(arm.bytes, n + 1, Len(arm.bytes)))
         IN  IF e.ok THEN Ok(arm.val, e.pos) ELSE e

\* the first arm, in the order of the table, that starts with the bytes read
match_arms(inp, pos, table, n, arms) ==
    IF arms = {} THEN Err("Io.Other", pos)
    ELSE match_arm(inp, pos, n, table[CHOOSE a \in arms : \A b \in arms : a <= b])

read_match(inp, pos, table, n) ==
    LET r == read(inp, pos, n)
    IN  IF ~r.ok THEN r
        ELSE match_arms(inp, r.pos, table, n, MatchArms(table, r.val, n))

(***************************************************************************)
(* OrderedBag: the entry list and the index from key to positions.         *)
(* Positions are 0-based as in the source.                                 *)
(***************************************************************************)
EmptyBag == [entries |-> <<>>, map |-> <<>>]

\* an insert that records the newest position first
bag_insert_newest_first(bag, k, v) ==
    LET pos == Len(bag.entries)
    IN  [entries |-> Append(bag.entries, <<k, v>>),
         map |-> [x \in (DOMAIN bag.map) \cup {k} |->
                    IF x \in DOMAIN bag.map
                    THEN IF x = k THEN <<pos>> \o bag.map[x] ELSE bag.map[x]
                    ELSE <<pos>>]]

\* an insert that overwrites the entry of a key that is present
bag_insert_replacing(bag, k, v) ==
    IF k \in DOMAIN bag.map
    THEN [bag EXCEPT !.entries[bag.map[k][1] + 1] = <<k, v>>]
    ELSE [entries |-> Append(bag.entries, <<k, v>>),
          map |-> [x \in (DOMAIN bag.map) \cup {k} |->
                     IF x \in DOMAIN bag.map THEN bag.map[x] ELSE <<Len(bag.entries)>>]]

\* an insert that records the length after the push as the position
bag_insert_one_based(bag, k, v) ==
    LET pos == Len(bag.entries) + 1
    IN  [entries |-> Append(bag.entries, <<k, v>>),
         map |-> [x \in (DOMAIN bag.map) \cup {k} |->
                    IF x \in DOMAIN bag.map
                    THEN IF x = k THEN Append(bag.map[x], pos) ELSE bag.map[x]
                    ELSE <<pos>>]]

bag_insert(bag, k, v) ==
    LET pos == Len(bag.entries)
    IN  [entries |-> Append(bag.entries, <<k, v>>),
         map |-> [x \in (DOMAIN bag.map) \cup {k} |->
                    IF x \in DOMAIN bag.map
                    THEN IF x = k THEN Append(bag.map[x], pos) ELSE bag.map[x]
                    ELSE <<pos>>]]

bag_contains(bag, k) == k \in DOMAIN bag.map /\ Len(bag.map[k]) > 0

\* get: the value at the first recorded position (guarded by bag_contains)
bag_get(bag, k) == bag.entries[bag.map[k][1] + 1][2]

bag_get_all(bag, k) ==
    IF k \in DOMAIN bag.map
    THEN [i \in 1..Len(bag.map[k]) |-> bag.entries[bag.map[k][i] + 1][2]]
    ELSE <<>>

bag_iter(bag) == bag.entries

bag_into_iter(bag) == bag.entries

bag_len(bag) == Len(bag.entries)

RECURSIVE bag_from_entries(_, _)
bag_from_entries(entries, bag) ==
    IF entries = <<>> THEN bag
    ELSE bag_from_entries(Tail(entries), bag_insert(bag, entries[1][1], entries[1][2]))

(***************************************************************************)
(* Charset, HeaderName, HeaderValue.                                       *)
(***************************************************************************)
Charsets == {"ASCII", "SHIFT_JIS", "ISO2022JP", "EUC_JP", "UTF8"}

Charset_to_string(c) ==
    CASE c = "ASCII" -> B_ASCII
      [] c = "SHIFT_JIS" -> B_SHIFT_JIS
      [] c = "ISO2022JP" -> B_ISO2022JP
      [] c = "EUC_JP" -> B_EUC_JP
      [] c = "UTF8" -> B_UTF8

Charset_from_string(s) ==
    IF s = B_ASCII THEN Ok("ASCII", 0)
    ELSE IF s = B_SHIFT_JIS THEN Ok("SHIFT_JIS", 0)
    ELSE IF s = B_ISO2022JP THEN Ok("ISO2022JP", 0)
    ELSE IF s = B_EUC_JP THEN Ok("EUC_JP", 0)
    ELSE IF s = B_UTF8 THEN Ok("UTF8", 0)
    ELSE Err("UnsupportedCharset", 0)

\* a token check that lets every graphic byte but the colon pass
IsGraphicByte(b) == b \in 33..126 /\ b # COLON

\* b'0'..=b'9' | b'!' | b'#'..=b'\'' | b'*'..=b'+' | b'-'..=b'.' | b'^'..=b'`'
\* | b'A'..=b'Z' | b'a'..=b'z' | b'|' | b'~'
IsTokenByte(b) ==
    \/ b \in 48..57
    \/ b = 33
    \/ b \in 35..39
    \/ b \in 42..43
    \/ b \in 45..46
    \/ b \in 94..96
    \/ b \in 65..90
    \/ b \in 97..122
    \/ b = 124
    \/ b = 126

\* the names matched literally before the token check (those the model uses)
WellKnownNames == {B_Charset, B_Sender, B_Script}

\* a header name is kept as its spelling: from_static maps a well-known
\* spelling to its variant and Display maps the variant back to the spelling
HeaderName_from_static(s) ==
    IF s \in WellKnownNames THEN Ok(s, 0)
    ELSE IF \A i \in 1..Len(s) : IsTokenByte(s[i]) THEN Ok(s, 0)
    ELSE Err("InvalidHeaderName", 0)

\* from_utf8_lossy turns every invalid sequence into U+FFFD, whose bytes are
\* not token bytes, and keeps every other byte
HeaderName_from_bytes(bytes) == HeaderName_from_static(bytes)

\* a control-character test that leaves out DEL
is_c0_control(c) == c \in 0..31

is_ascii_control(c) == c \in 0..31 \/ c = 127

is_ascii_graphic(c) == c \in 33..126

decode_ascii(bytes) ==
    IF \A i \in 1..Len(bytes) : bytes[i] < 128 THEN Ok(bytes, 0)
    ELSE Err("AsciiDecodeFailure", 0)

\* HeaderValue::text(): decode as ASCII, then refuse control characters
HeaderValue_text(bytes) ==
    LET d == decode_ascii(bytes)
    IN  IF ~d.ok THEN d
        ELSE IF \E i \in 1..Len(d.val) : is_ascii_control(d.val[i])
        THEN Err("UnprintableCharacters", 0)
        ELSE d

(***************************************************************************)
(* Method, Version and StatusCode: the values and their Display forms, in  *)
(* the order of the parser's match arms.                                   *)
(***************************************************************************)
V3Methods ==
    << [bytes |-> B_GET, val |-> "GET"],
       [bytes |-> B_NOTIFY, val |-> "NOTIFY"] >>

V3Versions == << [bytes |-> B_SHIORI_30, val |-> "SHIORI_30"] >>

V3StatusCodes ==
    << [bytes |-> <<50, 48, 48, 32, 79, 75>>, val |-> "OK"],
       [bytes |-> <<50, 48, 52, 32, 78, 111, 32, 67, 111, 110, 116, 101, 110, 116>>, val |-> "NO_CONTENT"],
       [bytes |-> <<51, 49, 48, 32, 67, 111, 109, 109, 117, 110, 105, 99, 97, 116, 101>>, val |-> "COMMUNICATE"],
       [bytes |-> <<51, 49, 49, 32, 78, 111, 116, 32, 69, 110, 111, 117, 103, 104>>, val |-> "NOT_ENOUGH"],
       [bytes |-> <<51, 49, 50, 32, 65, 100, 118, 105, 99, 101>>, val |-> "ADVICE"],
       [bytes |-> <<52, 48, 48, 32, 66, 97, 100, 32, 82, 101, 113, 117, 101, 115, 116>>, val |-> "BAD_REQUEST"],
       [bytes |-> <<53, 48, 48, 32, 73, 110, 116, 101, 114, 110, 97, 108, 32, 83, 101, 114,
                    118, 101, 114, 32, 69, 114, 114, 111, 114>>, val |-> "INTERNAL_SERVER_ERROR"] >>

SstpMethods ==
    << [bytes |-> B_NOTIFY, val |-> "NOTIFY"],
       [bytes |-> B_SEND, val |-> "SEND"],
       [bytes |-> B_EXECUTE, val |-> "EXECUTE"],
       [bytes |-> B_GIVE, val |-> "GIVE"],
       [bytes |-> B_COMMUNICATE, val |-> "COMMUNICATE"] >>

SstpVersions ==
    << [bytes |-> B_SSTP_10, val |-> "SSTP_10"],
       [bytes |-> B_SSTP_11, val |-> "SSTP_11"],
       [bytes |-> B_SSTP_12, val |-> "SSTP_12"],
       [bytes |-> B_SSTP_13, val |-> "SSTP_13"],
       [bytes |-> B_SSTP_14, val |-> "SSTP_14"] >>

SstpStatusCodes ==
    << [bytes |-> <<50, 48, 48, 32, 79, 75>>, val |-> "OK"],
       [bytes |-> <<50, 48, 52, 32, 78, 111, 32, 67, 111, 110, 116, 101, 110, 116>>, val |-> "NO_CONTENT"],
       [bytes |-> <<50, 49, 48, 32, 66, 114, 101, 97, 107>>, val |-> "BREAK"],
       [bytes |-> <<52, 48, 48, 32, 66, 97, 100, 32, 82, 101, 113, 117, 101, 115, 116>>, val |-> "BAD_REQUEST"],
       [bytes |-> <<52, 48, 56, 32, 82, 101, 113, 117, 101, 115, 116, 32, 84, 105, 109, 101,
                    111, 117, 116>>, val |-> "REQUEST_TIMEOUT"],
       [bytes |-> <<52, 48, 57, 32, 67, 111, 110, 102, 108, 105, 99, 116>>, val |-> "CONFLICT"],
       [bytes |-> <<52, 50, 48, 32, 82, 101, 102, 117, 115, 101>>, val |-> "REFUSE"],
       [bytes |-> <<53, 48, 49, 32, 78, 111, 116, 32, 73, 109, 112, 108, 101, 109, 101, 110,
                    116, 101, 100>>, val |-> "NOT_IMPLEMENTED"],
       [bytes |-> <<53, 48, 51, 32, 83, 101, 114, 118, 105, 99, 101, 32, 85, 110, 97, 118,
                    97, 105, 108, 97, 98, 108, 101>>, val |-> "SERVICE_UNAVAILABLE"],
       [bytes |-> <<53, 49, 48, 32, 78, 111, 116, 32, 76, 111, 99, 97, 108, 32, 73, 80>>, val |-> "NOT_LOCAL_IP"],
       [bytes |-> <<53, 49, 49, 32, 73, 110, 32, 66, 108, 97, 99, 107, 32, 76, 105, 115, 116>>,
        val |-> "IN_BLACK_LIST"],
       [bytes |-> <<53, 49, 50, 32, 73, 110, 118, 105, 115, 105, 98, 108, 101>>, val |-> "INVISIBLE"] >>

\* Display: the spelling of an enumeration value
to_string(table, v) ==
    table[CHOOSE i \in 1..Len(table) : table[i].val = v].bytes

(***************************************************************************)
(* Messages.  One record shape serves requests and responses: a request    *)
(* has status_code "none", a response has method "none"; only an SSTP      *)
(* response carries additional data.                                       *)
(***************************************************************************)
Empty == [tag |-> "Empty", bytes |-> <<>>]
Text(b) == [tag |-> "Text", bytes |-> b]

Message(m, v, st, h, c, a) ==
    [method |-> m, version |-> v, status_code |-> st, headers |-> h,
     charset |-> c, additional |-> a]

(***************************************************************************)
(* The parsers.                                                            *)
(***************************************************************************)
\* a skip of at most one space
skip_single_space(inp, pos) ==
    LET r == read(inp, pos, 1)
    IN  IF r.ok /\ r.val = <<SP>> THEN Ok(<<>>, r.pos) ELSE Ok(<<>>, pos)

skip_spaces(inp, pos) == read_repeat(inp, pos, <<SP>>)

skip_newline(inp, pos) == read_expect(inp, pos, CRLF)

\* an end-of-input check that accepts any cursor position
eof_unchecked(inp, pos) == Ok(<<>>, pos)

eof(inp, pos) ==
    IF pos = Len(inp) THEN Ok(<<>>, pos) ELSE Err("UnexpectedEof", pos)

RECURSIVE parse_headers_from(_, _, _)
parse_headers_from(inp, pos, map) ==
    LET la == lookahead(inp, pos, 2)
    IN  IF ~la.ok THEN la
        ELSE IF la.val = CRLF THEN Ok(map, pos)
        ELSE
          LET name == read_until(inp, pos, <<COLON>>)
          IN  IF ~name.ok THEN name
              ELSE
                LET sp == skip_spaces(inp, name.pos)
                    value == read_until(inp, sp.pos, CRLF)
                IN  IF ~value.ok THEN value
                    ELSE
                      LET hn == HeaderName_from_bytes(name.val)
                      IN  IF ~hn.ok THEN Err(hn.err, value.pos)
                          ELSE parse_headers_from(inp, value.pos,
                                                  bag_insert(map, hn.val, value.val))

parse_headers(inp, pos) == parse_headers_from(inp, pos, EmptyBag)

\* a lookup that falls back to ASCII when the header is absent
charset_header_defaulting(headers) ==
    IF ~bag_contains(headers, B_Charset) THEN Ok("ASCII", 0)
    ELSE LET t == HeaderValue_text(bag_get(headers, B_Charset))
         IN  IF ~t.ok THEN Err("FailedDecode", 0)
             ELSE Charset_from_string(t.val)

\* headers.get(CHARSET).ok_or(MissingHeader).and_then(text).and_then(from_string)
charset_header(headers) ==
    IF ~bag_contains(headers, B_Charset) THEN Err("MissingHeader", 0)
    ELSE LET t == HeaderValue_text(bag_get(headers, B_Charset))
         IN  IF ~t.ok THEN Err("FailedDecode", 0)
             ELSE Charset_from_string(t.val)

v3_parse_method(inp, pos) == read_match(inp, pos, V3Methods, 1)

v3_parse_version(inp, pos) == read_match(inp, pos, V3Versions, 1)

v3_parse_status_code(inp, pos) == read_match(inp, pos, V3StatusCodes, 3)

v3_parse_request(inp) ==
    LET method == v3_parse_method(inp, 0)
    IN  IF ~method.ok THEN method ELSE
    LET sp == skip_spaces(inp, method.pos)
        version == v3_parse_version(inp, sp.pos)
    IN  IF ~version.ok THEN version ELSE
    LET nl1 == skip_newline(inp, version.pos)
    IN  IF ~nl1.ok THEN nl1 ELSE
    LET headers == parse_headers(inp, nl1.pos)
    IN  IF ~headers.ok THEN headers ELSE
    LET ch == charset_header(headers.val)
        charset == IF ch.ok THEN ch.val ELSE "ASCII"
        nl2 == skip_newline(inp, headers.pos)
    IN  IF ~nl2.ok THEN nl2 ELSE
    LET end == eof(inp, nl2.pos)
    IN  IF ~end.ok THEN end
        ELSE Ok(Message(method.val, version.val, "none", headers.val, charset, Empty),
                nl2.pos)

v3_parse_response(inp) ==
    LET version == v3_parse_version(inp, 0)
    IN  IF ~version.ok THEN version ELSE
    LET sp == skip_spaces(inp, version.pos)
        status_code == v3_parse_status_code(inp, sp.pos)
    IN  IF ~status_code.ok THEN status_code ELSE
    LET nl1 == skip_newline(inp, status_code.pos)
    IN  IF ~nl1.ok THEN nl1 ELSE
    LET headers == parse_headers(inp, nl1.pos)
    IN  IF ~headers.ok THEN headers ELSE
    LET ch == charset_header(headers.val)
        charset == IF ch.ok THEN ch.val ELSE "ASCII"
        nl2 == skip_newline(inp, headers.pos)
    IN  IF ~nl2.ok THEN nl2 ELSE
    LET end == eof(inp, nl2.pos)
    IN  IF ~end.ok THEN end
        ELSE Ok(Message("none", version.val, status_code.val, headers.val, charset, Empty),
                nl2.pos)

sstp_parse_method(inp, pos) == read_match(inp, pos, SstpMethods, 1)

sstp_parse_version(inp, pos) == read_match(inp, pos, SstpVersions, 8)

sstp_parse_status_code(inp, pos) == read_match(inp, pos, SstpStatusCodes, 3)

RECURSIVE parse_additional_lines(_, _, _)
parse_additional_lines(inp, pos, bytes) ==
    LET la == lookahead(inp, pos, 2)
    IN  IF ~la.ok THEN la
        ELSE IF la.val = CRLF THEN Ok(Text(bytes), pos)
        ELSE LET buffer == read_until(inp, pos, CRLF)
             IN  IF ~buffer.ok THEN buffer
                 ELSE parse_additional_lines(inp, buffer.pos, bytes \o buffer.val \o CRLF)

parse_additional_data(inp, pos) ==
    IF eof(inp, pos).ok THEN Ok(Empty, pos)
    ELSE parse_additional_lines(inp, pos, <<>>)

sstp_parse_request(inp) ==
    LET method == sstp_parse_method(inp, 0)
    IN  IF ~method.ok THEN method ELSE
    LET sp == skip_spaces(inp, method.pos)
        version == sstp_parse_version(inp, sp.pos)
    IN  IF ~version.ok THEN version ELSE
    LET nl1 == skip_newline(inp, version.pos)
    IN  IF ~nl1.ok THEN nl1 ELSE
    LET headers == parse_headers(inp, nl1.pos)
    IN  IF ~headers.ok THEN headers ELSE
    LET charset == charset_header(headers.val)
    IN  IF ~charset.ok THEN Err(charset.err, headers.pos) ELSE
    LET nl2 == skip_newline(inp, headers.pos)
    IN  IF ~nl2.ok THEN nl2 ELSE
    LET end == eof(inp, nl2.pos)
    IN  IF ~end.ok THEN end
        ELSE Ok(Message(method.val, version.val, "none", headers.val, charset.val, Empty),
                nl2.pos)

sstp_parse_response(inp) ==
    LET version == sstp_parse_version(inp, 0)
    IN  IF ~version.ok THEN version ELSE
    LET sp == skip_spaces(inp, version.pos)
        status_code == sstp_parse_status_code(inp, sp.pos)
    IN  IF ~status_code.ok THEN status_code ELSE
    LET nl1 == skip_newline(inp, status_code.pos)
    IN  IF ~nl1.ok THEN nl1 ELSE
    LET headers == parse_headers(inp, nl1.pos)
    IN  IF ~headers.ok THEN headers ELSE
    LET charset == charset_header(headers.val)
    IN  IF ~charset.ok THEN Err(charset.err, headers.pos) ELSE
    LET nl2 == skip_newline(inp, headers.pos)
    IN  IF ~nl2.ok THEN nl2 ELSE
    LET additional == parse_additional_data(inp, nl2.pos)
    IN  IF ~additional.ok THEN additional ELSE
    LET nl3 == IF additional.val.tag = "Text"
               THEN skip_newline(inp, additional.pos)
               ELSE Ok(<<>>, additional.pos)
    IN  IF ~nl3.ok THEN nl3 ELSE
    LET end == eof(inp, nl3.pos)
    IN  IF ~end.ok THEN end
        ELSE Ok(Message("none", version.val, status_code.val, headers.val, charset.val,
                        additional.val), nl3.pos)

(***************************************************************************)
(* The version-dispatching entry points of uka_shiori::types.  A slice     *)
(* buf[..n] with n beyond the length of buf panics.                        *)
(***************************************************************************)
Prefix(buf, n) == SubSeq(buf, 1, n)

\* which branch Request::parse takes: the slices buf[..14] and buf[..17] are
\* taken in this order, the second only when the first comparison fails
types_Request_route(buf) ==
    IF Len(buf) < 14 THEN "Panic"
    ELSE IF B_GET_SHIORI_30 = Prefix(buf, 14) THEN "V3"
    ELSE IF Len(buf) < 17 THEN "Panic"
    ELSE IF B_NOTIFY_SHIORI_30 = Prefix(buf, 17) THEN "V3"
    ELSE "InvalidRequest"

types_Request_parse(buf) ==
    CASE types_Request_route(buf) = "Panic" -> [kind |-> "Panic"]
      [] types_Request_route(buf) = "V3" ->
           [kind |-> "Parsed", result |-> v3_parse_request(buf)]
      [] OTHER -> [kind |-> "Parsed", result |-> Err("InvalidRequest", 0)]

types_Response_parse(buf) ==
    IF Len(buf) < 8 THEN [kind |-> "Panic"]
    ELSE IF B_SHIORI_3 = Prefix(buf, 8)
    THEN [kind |-> "Parsed", result |-> v3_parse_response(buf)]
    ELSE [kind |-> "Parsed", result |-> Err("InvalidResponse", 0)]

(***************************************************************************)
(* Encoder: a string is a sequence of code points.  The JIS X 0208         *)
(* repertoire is represented by the characters the model uses, each with   *)
(* its row and cell (ku, ten); the yen sign has a single byte of its own   *)
(* in the three legacy encodings; every other non-ASCII character is       *)
(* unmappable in them.                                                     *)
(***************************************************************************)
HIRAGANA_SA == 12373
YEN_SIGN == 165
REVERSE_SOLIDUS == 92

Jis0208 == [c \in {HIRAGANA_SA} |-> <<4, 21>>]

\* the concatenation of a sequence of byte sequences
RECURSIVE Concat(_)
Concat(ss) == IF ss = <<>> THEN <<>> ELSE ss[1] \o Concat(Tail(ss))

encode_ascii(input) ==
    IF \A i \in 1..Len(input) : input[i] < 128 THEN Ok(input, 0)
    ELSE Err("AsciiEncodeFailure", 0)

utf8_char(c) ==
    IF c < 128 THEN <<c>>
    ELSE IF c < 2048 THEN <<192 + (c \div 64), 128 + (c % 64)>>
    ELSE <<224 + (c \div 4096), 128 + ((c \div 64) % 64), 128 + (c % 64)>>

encode_utf8(input) == Ok(Concat([i \in 1..Len(input) |-> utf8_char(input[i])]), 0)

Mappable(input) ==
    \A i \in 1..Len(input) :
        input[i] < 128 \/ input[i] = YEN_SIGN \/ input[i] \in DOMAIN Jis0208

sjis_char(c) ==
    IF c < 128 THEN <<c>>
    ELSE IF c = YEN_SIGN THEN <<REVERSE_SOLIDUS>>
    ELSE LET ku == Jis0208[c][1]
             ten == Jis0208[c][2]
             lead == ((ku - 1) \div 2) + (IF ku <= 62 THEN 129 ELSE 193)
             trail == IF ku % 2 = 1
                      THEN ten + (IF ten <= 63 THEN 63 ELSE 64)
                      ELSE ten + 158
         IN  <<lead, trail>>

encode_sjis(input) ==
    IF Mappable(input) THEN Ok(Concat([i \in 1..Len(input) |-> sjis_char(input[i])]), 0)
    ELSE Err("ShiftJisEncodeFailure", 0)

euc_jp_char(c) ==
    IF c < 128 THEN <<c>>
    ELSE IF c = YEN_SIGN THEN <<REVERSE_SOLIDUS>>
    ELSE <<Jis0208[c][1] + 160, Jis0208[c][2] + 160>>

encode_euc_jp(input) ==
    IF Mappable(input) THEN Ok(Concat([i \in 1..Len(input) |-> euc_jp_char(input[i])]), 0)
    ELSE Err("EucJpEncodeFailure", 0)

ESC_ASCII == <<27, 40, 66>>
ESC_JIS0208 == <<27, 36, 66>>
ESC_ROMAN == <<27, 40, 74>>

\* state: the character set in force, ASCII, JIS X 0201 Roman (ASCII with
\* the yen sign in place of the reverse solidus) or JIS X 0208
RECURSIVE iso_2022_jp_from(_, _)
iso_2022_jp_from(input, state) ==
    IF input = <<>> THEN (IF state = "ascii" THEN <<>> ELSE ESC_ASCII)
    ELSE IF input[1] < 128 /\ state = "roman" /\ input[1] \notin {REVERSE_SOLIDUS, 126}
    THEN <<input[1]>> \o iso_2022_jp_from(Tail(input), "roman")
    ELSE IF input[1] < 128
    THEN (IF state = "ascii" THEN <<>> ELSE ESC_ASCII) \o <<input[1]>>
         \o iso_2022_jp_from(Tail(input), "ascii")
    ELSE IF input[1] = YEN_SIGN
    THEN (IF state = "roman" THEN <<>> ELSE ESC_ROMAN) \o <<REVERSE_SOLIDUS>>
         \o iso_2022_jp_from(Tail(input), "roman")
    ELSE (IF state = "jis0208" THEN <<>> ELSE ESC_JIS0208)
         \o <<Jis0208[input[1]][1] + 32, Jis0208[input[1]][2] + 32>>
         \o iso_2022_jp_from(Tail(input), "jis0208")

\* the ISO-2022-JP encoder has no output for SO, SI and ESC
encode_iso_2022_jp(input) ==
    IF Mappable(input) /\ \A i \in 1..Len(input) : input[i] \notin {14, 15, 27}
    THEN Ok(iso_2022_jp_from(input, "ascii"), 0)
    ELSE Err("Iso2022JpEncodeFailure", 0)

encode(s, charset) ==
    CASE charset = "ASCII" -> encode_ascii(s)
      [] charset = "SHIFT_JIS" -> encode_sjis(s)
      [] charset = "ISO2022JP" -> encode_iso_2022_jp(s)
      [] charset = "EUC_JP" -> encode_euc_jp(s)
      [] charset = "UTF8" -> encode_utf8(s)

(***************************************************************************)
(* Decoder, over the same repertoire: a double-byte sequence that is       *)
(* well-formed but encodes a character outside the repertoire is not       *)
(* decoded here, and no input of the model holds one.                      *)
(***************************************************************************)
\* the number of bytes of the UTF-8 sequence that starts with lead (0: none;
\* sequences of four bytes encode characters outside the repertoire)
utf8_width(lead) ==
    IF lead < 128 THEN 1
    ELSE IF lead \in 194..223 THEN 2
    ELSE IF lead \in 224..239 THEN 3
    ELSE 0

utf8_code_point(b, n) ==
    CASE n = 1 -> b[1]
      [] n = 2 -> (b[1] - 192) * 64 + (b[2] - 128)
      [] n = 3 -> (b[1] - 224) * 4096 + (b[2] - 128) * 64 + (b[3] - 128)

RECURSIVE decode_utf8(_)
decode_utf8(b) ==
    IF b = <<>> THEN Ok(<<>>, 0)
    ELSE LET n == utf8_width(b[1])
         IN  IF \/ n = 0
                \/ Len(b) < n
                \/ \E i \in 2..n : b[i] \notin 128..191
                \/ (b[1] = 224 /\ b[2] < 160)
                \/ (b[1] = 237 /\ b[2] > 159)
             THEN Err("Utf8DecodeFailure", 0)
             ELSE LET rest == decode_utf8(SubSeq(b, n + 1, Len(b)))
                  IN  IF rest.ok THEN Ok(<<utf8_code_point(b, n)>> \o rest.val, 0)
                      ELSE rest

\* the characters of the repertoire a double-byte sequence stands for
sjis_chars(pair) == { c \in DOMAIN Jis0208 : sjis_char(c) = pair }
euc_jp_chars(pair) == { c \in DOMAIN Jis0208 : euc_jp_char(c) = pair }
jis_chars(pair) == { c \in DOMAIN Jis0208 : <<Jis0208[c][1] + 32, Jis0208[c][2] + 32>> = pair }

RECURSIVE decode_sjis(_)
decode_sjis(b) ==
    IF b = <<>> THEN Ok(<<>>, 0)
    ELSE IF b[1] <= 128 \/ b[1] \in 161..223
    THEN LET rest == decode_sjis(Tail(b))
             c == IF b[1] <= 128 THEN b[1] ELSE 65377 + (b[1] - 161)
         IN  IF rest.ok THEN Ok(<<c>> \o rest.val, 0) ELSE rest
    ELSE IF Len(b) >= 2 /\ sjis_chars(SubSeq(b, 1, 2)) # {}
    THEN LET rest == decode_sjis(SubSeq(b, 3, Len(b)))
         IN  IF rest.ok
             THEN Ok(<<CHOOSE c \in sjis_chars(SubSeq(b, 1, 2)) : TRUE>> \o rest.val, 0)
             ELSE rest
    ELSE Err("ShiftJisDecodeFailure", 0)

RECURSIVE decode_euc_jp(_)
decode_euc_jp(b) ==
    IF b = <<>> THEN Ok(<<>>, 0)
    ELSE IF b[1] < 128
    THEN LET rest == decode_euc_jp(Tail(b))
         IN  IF rest.ok THEN Ok(<<b[1]>> \o rest.val, 0) ELSE rest
    ELSE IF Len(b) >= 2 /\ euc_jp_chars(SubSeq(b, 1, 2)) # {}
    THEN LET rest == decode_euc_jp(SubSeq(b, 3, Len(b)))
         IN  IF rest.ok
             THEN Ok(<<CHOOSE c \in euc_jp_chars(SubSeq(b, 1, 2)) : TRUE>> \o rest.val, 0)
             ELSE rest
    ELSE Err("EucJpDecodeFailure", 0)

\* state: the character set in force; escaped: an escape sequence was read
\* and no character since (a second escape sequence is then an error)
RECURSIVE iso_2022_jp_to(_, _, _)
iso_2022_jp_to(b, state, escaped) ==
    IF b = <<>> THEN Ok(<<>>, 0)
    ELSE IF b[1] = 27
    THEN IF /\ Len(b) >= 3
            /\ SubSeq(b, 1, 3) \in {ESC_ASCII, ESC_ROMAN, ESC_JIS0208}
            /\ ~escaped
         THEN iso_2022_jp_to(SubSeq(b, 4, Len(b)),
                             CASE SubSeq(b, 1, 3) = ESC_ASCII -> "ascii"
                               [] SubSeq(b, 1, 3) = ESC_ROMAN -> "roman"
                               [] OTHER -> "jis0208",
                             TRUE)
         ELSE Err("Iso2022JpDecodeFailure", 0)
    ELSE IF state \in {"ascii", "roman"}
    THEN IF b[1] < 128 /\ b[1] \notin {14, 15}
         THEN LET rest == iso_2022_jp_to(Tail(b), state, FALSE)
                  c == IF state = "roman" /\ b[1] = REVERSE_SOLIDUS THEN YEN_SIGN
                       ELSE IF state = "roman" /\ b[1] = 126 THEN 8254
                       ELSE b[1]
              IN  IF rest.ok THEN Ok(<<c>> \o rest.val, 0) ELSE rest
         ELSE Err("Iso2022JpDecodeFailure", 0)
    ELSE IF Len(b) >= 2 /\ jis_chars(SubSeq(b, 1, 2)) # {}
    THEN LET rest == iso_2022_jp_to(SubSeq(b, 3, Len(b)), state, FALSE)
         IN  IF rest.ok
             THEN Ok(<<CHOOSE c \in jis_chars(SubSeq(b, 1, 2)) : TRUE>> \o rest.val, 0)
             ELSE rest
    ELSE Err("Iso2022JpDecodeFailure", 0)

decode_iso_2022_jp(b) == iso_2022_jp_to(b, "ascii", FALSE)

decode(b, charset) ==
    CASE charset = "ASCII" -> decode_ascii(b)
      [] charset = "SHIFT_JIS" -> decode_sjis(b)
      [] charset = "ISO2022JP" -> decode_iso_2022_jp(b)
      [] charset = "EUC_JP" -> decode_euc_jp(b)
      [] charset = "UTF8" -> decode_utf8(b)

HeaderValue_text_with_charset(bytes, charset) ==
    LET text == decode(bytes, charset)
    IN  IF ~text.ok THEN Err("FailedDecode", 0)
        ELSE IF \E i \in 1..Len(text.val) : is_ascii_control(text.val[i])
        THEN Err("UnprintableCharacters", 0)
        ELSE text

HeaderValue_from_static_with_charset(s, charset) ==
    IF \E i \in 1..Len(s) : is_ascii_control(s[i])
    THEN Err("UnprintableCharacters", 0)
    ELSE LET bytes == encode(s, charset)
         IN  IF bytes.ok THEN bytes ELSE Err("FailedEncode", 0)

HeaderValue_from_static(s) == HeaderValue_from_static_with_charset(s, "ASCII")

\* str::replace('\n', "\r\n")
replace_lf(c) == IF c = LF THEN CRLF ELSE <<c>>

AdditionalData_from_static_with_charset(s, charset) ==
    IF s = <<>> THEN Ok(Empty, 0)
    ELSE LET bytes == encode(Concat([i \in 1..Len(s) |-> replace_lf(s[i])]), charset)
         IN  IF ~bytes.ok THEN bytes
             ELSE IF SubSeq(bytes.val, Len(bytes.val), Len(bytes.val)) # CRLF
             THEN Ok(Text(bytes.val \o CRLF), 0)
             ELSE Ok(Text(bytes.val), 0)

(***************************************************************************)
(* Serialisation.                                                          *)
(***************************************************************************)
\* a header line written without the space after the colon
header_line_without_space(e) == e[1] \o <<COLON>> \o e[2] \o CRLF

header_line(e) == e[1] \o <<COLON, SP>> \o e[2] \o CRLF

headers_as_bytes(headers) ==
    LET it == bag_iter(headers)
    IN  Concat([i \in 1..Len(it) |-> header_line(it[i])])

v3_Request_as_bytes(r) ==
    to_string(V3Methods, r.method) \o <<SP>> \o to_string(V3Versions, r.version) \o CRLF
    \o headers_as_bytes(r.headers) \o CRLF

v3_Response_as_bytes(r) ==
    to_string(V3Versions, r.version) \o <<SP>> \o to_string(V3StatusCodes, r.status_code)
    \o CRLF \o headers_as_bytes(r.headers) \o CRLF

sstp_Request_as_bytes(r) ==
    to_string(SstpMethods, r.method) \o <<SP>> \o to_string(SstpVersions, r.version) \o CRLF
    \o headers_as_bytes(r.headers) \o CRLF

sstp_Response_as_bytes(r) ==
    to_string(SstpVersions, r.version) \o <<SP>> \o to_string(SstpStatusCodes, r.status_code)
    \o CRLF \o headers_as_bytes(r.headers) \o CRLF
    \o (IF r.additional.tag = "Text" THEN r.additional.bytes \o CRLF ELSE <<>>)

(***************************************************************************)
(* Builders.  Parts holds what the builder calls have accumulated; "none"  *)
(* is Option::None.  The SHIORI/3.0 builders keep the headers in an        *)
(* OrderedBag<String, String>, the SSTP builders in a                      *)
(* HashMap<String, Vec<String>>, modelled as a function from the names     *)
(* inserted so far to their values; a HashMap iterates in an arbitrary     *)
(* order of its keys.                                                      *)
(***************************************************************************)
NoText == [some |-> FALSE, val |-> <<>>]
SomeText(s) == [some |-> TRUE, val |-> s]

V3Parts == [method |-> "none", version |-> "none", status_code |-> "none",
            headers |-> EmptyBag, charset |-> "none", additional |-> NoText]

SstpParts == [method |-> "none", version |-> "none", status_code |-> "none",
              headers |-> <<>>, charset |-> "none", additional |-> NoText]

\* headers.entry(name).or_default().push(value)
hash_push(headers, name, value) ==
    [x \in (DOMAIN headers) \cup {name} |->
        IF x \in DOMAIN headers
        THEN IF x = name THEN Append(headers[x], value) ELSE headers[x]
        ELSE <<value>>]

v3_header(p, name, value) ==
    [p EXCEPT !.headers = bag_insert(p.headers, name, value)]

v3_charset(p, charset) ==
    LET headers == bag_insert(p.headers, B_Charset, Charset_to_string(charset))
    IN  IF p.charset # "none"
        THEN [p EXCEPT !.headers = headers]
        ELSE [p EXCEPT !.headers = headers, !.charset = charset]

sstp_header(p, name, value) ==
    [p EXCEPT !.headers = hash_push(p.headers, name, value)]

sstp_charset(p, charset) ==
    LET headers == hash_push(p.headers, B_Charset, Charset_to_string(charset))
    IN  IF p.charset # "none"
        THEN [p EXCEPT !.headers = headers]
        ELSE [p EXCEPT !.headers = headers, !.charset = charset]

\* the SHIORI/3.0 builders encode every value under the resolved charset
v3_encode_value(v, charset) == HeaderValue_from_static_with_charset(v, charset)

\* the SSTP builders encode a value made of ASCII graphic characters as ASCII
sstp_encode_value(v, charset) ==
    IF \A i \in 1..Len(v) : is_ascii_graphic(v[i])
    THEN HeaderValue_from_static(v)
    ELSE HeaderValue_from_static_with_charset(v, charset)

\* the (name, value) pairs of the builder become a HeaderMap; the first
\* failing pair decides the error, its name before its value
RECURSIVE v3_collect_headers(_, _, _)
v3_collect_headers(entries, charset, map) ==
    IF entries = <<>> THEN Ok(map, 0)
    ELSE LET name == HeaderName_from_static(encode_utf8(entries[1][1]).val)
             value == v3_encode_value(entries[1][2], charset)
         IN  IF ~name.ok THEN Err("InvalidHeaderName", 0)
             ELSE IF ~value.ok THEN Err("FailedEncodeHeaderValue", 0)
             ELSE v3_collect_headers(Tail(entries), charset,
                                     bag_insert(map, name.val, value.val))

RECURSIVE sstp_collect_headers(_, _, _)
sstp_collect_headers(entries, charset, map) ==
    IF entries = <<>> THEN Ok(map, 0)
    ELSE LET name == HeaderName_from_static(encode_utf8(entries[1][1]).val)
             value == sstp_encode_value(entries[1][2], charset)
         IN  IF ~name.ok THEN Err("InvalidHeaderName", 0)
             ELSE IF ~value.ok THEN Err("FailedEncodeHeaderValue", 0)
             ELSE sstp_collect_headers(Tail(entries), charset,
                                       bag_insert(map, name.val, value.val))

v3_RequestBuilder_build(p) ==
    LET charset == IF p.charset = "none" THEN "ASCII" ELSE p.charset
        headers == v3_collect_headers(bag_iter(p.headers), charset, EmptyBag)
    IN  IF p.method = "none" THEN Err("MissingMethod", 0)
        ELSE IF p.version = "none" THEN Err("MissingVersion", 0)
        ELSE IF ~headers.ok THEN headers
        ELSE Ok(Message(p.method, p.version, "none", headers.val, charset, Empty), 0)

v3_ResponseBuilder_build(p) ==
    LET charset == IF p.charset = "none" THEN "ASCII" ELSE p.charset
        headers == v3_collect_headers(bag_iter(p.headers), charset, EmptyBag)
    IN  IF p.version = "none" THEN Err("MissingVersion", 0)
        ELSE IF p.status_code = "none" THEN Err("MissingStatusCode", 0)
        ELSE IF ~headers.ok THEN headers
        ELSE Ok(Message("none", p.version, p.status_code, headers.val, charset, Empty), 0)

\* the pairs a HashMap<String, Vec<String>> yields when its keys are
\* visited in the given order
RECURSIVE hash_iter(_, _)
hash_iter(headers, order) ==
    IF order = <<>> THEN <<>>
    ELSE [i \in 1..Len(headers[order[1]]) |-> <<order[1], headers[order[1]][i]>>]
         \o hash_iter(headers, Tail(order))

\* the orders in which a HashMap may visit its keys
KeyOrders(headers) ==
    { o \in [1..Cardinality(DOMAIN headers) -> DOMAIN headers] :
        \A i, j \in DOMAIN o : i # j => o[i] # o[j] }

\* a build that falls back to ASCII when charset() was never called
sstp_RequestBuilder_build_defaulting(p, order) ==
    LET charset == IF p.charset = "none" THEN "ASCII" ELSE p.charset
        headers == sstp_collect_headers(hash_iter(p.headers, order), charset, EmptyBag)
    IN  IF p.method = "none" THEN Err("MissingMethod", 0)
        ELSE IF p.version = "none" THEN Err("MissingVersion", 0)
        ELSE IF ~headers.ok THEN headers
        ELSE Ok(Message(p.method, p.version, "none", headers.val, charset, Empty), 0)

sstp_RequestBuilder_build(p, order) ==
    LET headers == sstp_collect_headers(hash_iter(p.headers, order), p.charset, EmptyBag)
    IN  IF p.charset = "none" THEN Err("MissingCharset", 0)
        ELSE IF p.method = "none" THEN Err("MissingMethod", 0)
        ELSE IF p.version = "none" THEN Err("MissingVersion", 0)
        ELSE IF ~headers.ok THEN headers
        ELSE Ok(Message(p.method, p.version, "none", headers.val, p.charset, Empty), 0)

sstp_ResponseBuilder_build(p, order) ==
    LET headers == sstp_collect_headers(hash_iter(p.headers, order), p.charset, EmptyBag)
        additional == AdditionalData_from_static_with_charset(p.additional.val, p.charset)
    IN  IF p.charset = "none" THEN Err("MissingCharset", 0)
        ELSE IF p.version = "none" THEN Err("MissingVersion", 0)
        ELSE IF p.status_code = "none" THEN Err("MissingStatusCode", 0)
        ELSE IF ~headers.ok THEN headers
        ELSE IF ~additional.ok THEN Err("FailedEncodeAdditionalData", 0)
        ELSE Ok(Message("none", p.version, p.status_code, headers.val, p.charset,
                        additional.val), 0)

(***************************************************************************)
(* The state machine.                                                      *)
(*   proto  which message type is built or parsed                          *)
(*   pc     builder -> built -> wire -> parsed   (Spec)                    *)
(*          raw0 -> raw1 -> raw2 -> parsed       (SpecParse)               *)
(*   parts  the builder's Parts                                            *)
(*   calls  the (name, value, method called) of the header() and charset() *)
(*          calls so far, in call order                                    *)
(*   built  the result of build()                                          *)
(*   wire   the bytes handed to parse                                      *)
(*   lines  the number of header lines written to wire (SpecParse)         *)
(*   res    the outcome of parse                                           *)
(***************************************************************************)
VARIABLES proto, pc, parts, calls, built, wire, lines, res

(***************************************************************************)
(* The state of the specifications of single data types.                   *)
(*   bag       an OrderedBag under a sequence of insert calls              *)
(*   inserted  the (key, value) of the insert calls so far, in call order  *)
(*   hv        a string, a charset, the HeaderValue made from them, the    *)
(*             text read back from it and the result of a builder given    *)
(*             the string as a header value                                *)
(*   cur       the cursor of a parse taken one statement or one loop       *)
(*             iteration at a time: its phase, its position, the number    *)
(*             of steps taken and the headers read so far                  *)
(*   rt        a Shiori runtime and the calls made on it                   *)
(***************************************************************************)
VARIABLES bag, inserted, hv, cur, rt

message_vars == <<proto, pc, parts, calls, built, wire, lines, res>>
unit_vars == <<bag, inserted, hv, cur, rt>>
vars == <<message_vars, unit_vars>>

Protos == {"v3_request", "v3_response", "sstp_request", "sstp_response"}

IsV3(p) == p \in {"v3_request", "v3_response"}
IsRequest(p) == p \in {"v3_request", "sstp_request"}

NoMessage == Message("none", "none", "none", EmptyBag, "none", Empty)
NoBuilt == [ok |-> FALSE, val |-> NoMessage, pos |-> 0, err |-> "none"]
NoRes == [kind |-> "none", err |-> "none", msg |-> NoMessage, pos |-> 0, via |-> "none"]

\* the outcome of a parse entry point, as the caller sees it
Outcome(r, via) ==
    IF r.ok THEN [kind |-> "Ok", err |-> "none", msg |-> r.val, pos |-> r.pos, via |-> via]
    ELSE [kind |-> "Err", err |-> r.err, msg |-> NoMessage, pos |-> r.pos, via |-> via]

Panicked(via) == [kind |-> "Panic", err |-> "none", msg |-> NoMessage, pos |-> 0, via |-> via]

\* the outcome of a version-dispatching entry point
Dispatched(d, via) == IF d.kind = "Panic" THEN Panicked(via) ELSE Outcome(d.result, via)

parse(p, buf) ==
    CASE p = "v3_request" -> v3_parse_request(buf)
      [] p = "v3_response" -> v3_parse_response(buf)
      [] p = "sstp_request" -> sstp_parse_request(buf)
      [] p = "sstp_response" -> sstp_parse_response(buf)

as_bytes(p, m) ==
    CASE p = "v3_request" -> v3_Request_as_bytes(m)
      [] p = "v3_response" -> v3_Response_as_bytes(m)
      [] p = "sstp_request" -> sstp_Request_as_bytes(m)
      [] p = "sstp_response" -> sstp_Response_as_bytes(m)

types_parse(p, buf) ==
    IF p = "v3_request" THEN types_Request_parse(buf) ELSE types_Response_parse(buf)

(***************************************************************************)
(* Arguments of the builder calls.                                         *)
(***************************************************************************)
MethodArgs(p) == IF IsV3(p) THEN {"GET", "NOTIFY"} ELSE {"NOTIFY", "SEND"}
VersionArgs(p) == IF IsV3(p) THEN {"SHIORI_30"} ELSE {"SSTP_11", "SSTP_14"}
StatusArgs(p) == IF IsV3(p) THEN {"OK", "NO_CONTENT"} ELSE {"OK", "BREAK"}
CharsetArgs == {"UTF8", "SHIFT_JIS"}

\* "a", " a", the hiragana SA, "X"
S_a == <<97>>
S_sp_a == <<32, 97>>
S_sa == <<HIRAGANA_SA>>
S_X == <<88>>

HeaderArgs ==
    { <<B_Charset, B_UTF8>>, <<B_Charset, S_X>>,
      <<B_Sender, S_a>>, <<B_Sender, S_sp_a>>, <<B_Sender, S_sa>>,
      <<B_Script, S_a>>,
      <<<<>>, S_a>> }

\* "a", "a\nb", "a\n", "a\n\nb"
AdditionalArgs == { <<97>>, <<97, 10, 98>>, <<97, 10>>, <<97, 10, 10, 98>>, <<>> }

(***************************************************************************)
(* The idle values of the two groups of variables.                         *)
(***************************************************************************)
NoResult == [ok |-> FALSE, val |-> <<>>, pos |-> 0, err |-> "none"]
NoValue == [stage |-> "idle", s |-> <<>>, charset |-> "ASCII", value |-> NoResult,
            text |-> NoResult, built |-> NoBuilt]

\* the cursor of a parse that has not started
NoCursor == [phase |-> "idle", pos |-> 0, steps |-> 0, headers |-> EmptyBag]

\* The SHIORI runtime: the context behind the read-write lock, the tasks
\* that hold the lock for reading, the tasks queued for the lock in the
\* order they asked for it, and what each calling task is doing.
Tasks == 1..MaxTasks
NoContext == [some |-> FALSE, path |-> "none", id |-> 0]
SomeContext(path, id) == [some |-> TRUE, path |-> path, id |-> id]
NoOutcome == [kind |-> "none", err |-> "none", version |-> "none", status_code |-> "none"]
IdleTask == [op |-> "idle", pc |-> "idle", path |-> "none", ctx |-> NoContext,
             seen |-> NoContext, out |-> NoOutcome]

\* Shiori::from(service): the lock holds None and no call has been made
NoRuntime == [context |-> NoContext, readers |-> {}, queue |-> <<>>,
              task |-> [t \in Tasks |-> IdleTask],
              ops |-> 0, loads |-> 0, handled |-> 0, new_failed |-> FALSE]

UnitIdle ==
    /\ bag = EmptyBag
    /\ inserted = <<>>
    /\ hv = NoValue
    /\ cur = NoCursor
    /\ rt = NoRuntime

MessageIdle ==
    /\ proto = "v3_request"
    /\ pc = "idle"
    /\ parts = V3Parts
    /\ calls = <<>>
    /\ built = NoBuilt
    /\ wire = <<>>
    /\ lines = 0
    /\ res = NoRes

(***************************************************************************)
(* Builder calls, build, as_bytes and parse.                               *)
(***************************************************************************)
Init ==
    /\ proto \in Protos
    /\ pc = "builder"
    /\ parts = IF IsV3(proto) THEN V3Parts ELSE SstpParts
    /\ calls = <<>>
    /\ built = NoBuilt
    /\ wire = <<>>
    /\ lines = 0
    /\ res = NoRes
    /\ UnitIdle

CallMethod ==
    /\ pc = "builder"
    /\ IsRequest(proto)
    /\ \E m \in MethodArgs(proto) : parts' = [parts EXCEPT !.method = m]
    /\ UNCHANGED <<unit_vars, proto, pc, calls, built, wire, lines, res>>

CallVersion ==
    /\ pc = "builder"
    /\ \E v \in VersionArgs(proto) : parts' = [parts EXCEPT !.version = v]
    /\ UNCHANGED <<unit_vars, proto, pc, calls, built, wire, lines, res>>

CallStatusCode ==
    /\ pc = "builder"
    /\ ~IsRequest(proto)
    /\ \E st \in StatusArgs(proto) : parts' = [parts EXCEPT !.status_code = st]
    /\ UNCHANGED <<unit_vars, proto, pc, calls, built, wire, lines, res>>

CallHeader ==
    /\ pc = "builder"
    /\ Len(calls) < MaxCalls
    /\ \E h \in HeaderArgs :
         /\ parts' = IF IsV3(proto) THEN v3_header(parts, h[1], h[2])
                     ELSE sstp_header(parts, h[1], h[2])
         /\ calls' = Append(calls, <<h[1], h[2], "header">>)
    /\ UNCHANGED <<unit_vars, proto, pc, built, wire, lines, res>>

CallCharset ==
    /\ pc = "builder"
    /\ Len(calls) < MaxCalls
    /\ \E c \in CharsetArgs :
         /\ parts' = IF IsV3(proto) THEN v3_charset(parts, c) ELSE sstp_charset(parts, c)
         /\ calls' = Append(calls, <<B_Charset, Charset_to_string(c), "charset">>)
    /\ UNCHANGED <<unit_vars, proto, pc, built, wire, lines, res>>

CallAdditional ==
    /\ pc = "builder"
    /\ proto = "sstp_response"
    /\ \E a \in AdditionalArgs : parts' = [parts EXCEPT !.additional = SomeText(a)]
    /\ UNCHANGED <<unit_vars, proto, pc, calls, built, wire, lines, res>>

Build ==
    /\ pc = "builder"
    /\ pc' = "built"
    /\ CASE proto = "v3_request" -> built' = v3_RequestBuilder_build(parts)
         [] proto = "v3_response" -> built' = v3_ResponseBuilder_build(parts)
         [] proto = "sstp_request" ->
              \E o \in KeyOrders(parts.headers) : built' = sstp_RequestBuilder_build(parts, o)
         [] proto = "sstp_response" ->
              \E o \in KeyOrders(parts.headers) : built' = sstp_ResponseBuilder_build(parts, o)
    /\ UNCHANGED <<unit_vars, proto, parts, calls, wire, lines, res>>

Serialize ==
    /\ pc = "built"
    /\ built.ok
    /\ pc' = "wire"
    /\ wire' = as_bytes(proto, built.val)
    /\ UNCHANGED <<unit_vars, proto, parts, calls, built, lines, res>>

Parse ==
    /\ pc \in {"wire", "raw0", "raw1", "raw2"}
    /\ pc' = "parsed"
    /\ res' = Outcome(parse(proto, wire), "direct")
    /\ UNCHANGED <<unit_vars, proto, parts, calls, built, wire, lines>>

ParseDispatch ==
    /\ pc \in {"raw0", "raw1", "raw2"}
    /\ IsV3(proto)
    /\ pc' = "parsed"
    /\ res' = Dispatched(types_parse(proto, wire), "types")
    /\ UNCHANGED <<unit_vars, proto, parts, calls, built, wire, lines>>

Next ==
    \/ CallMethod
    \/ CallVersion
    \/ CallStatusCode
    \/ CallHeader
    \/ CallCharset
    \/ CallAdditional
    \/ Build
    \/ Serialize
    \/ Parse

Spec == Init /\ [][Next]_vars

(***************************************************************************)
(* Raw inputs for the parsers: a start line, up to MaxLines header lines   *)
(* and an ending, each drawn from well-formed and malformed variants.      *)
(***************************************************************************)
\* "FOO", "SHIORI/2.0", "SSTP/1.5", "999 OK", "200 OK", "204 No Content", "210 Break"
B_FOO == <<70, 79, 79>>
B_SHIORI_20 == <<83, 72, 73, 79, 82, 73, 47, 50, 46, 48>>
B_SSTP_15 == <<83, 83, 84, 80, 47, 49, 46, 53>>
B_999_OK == <<57, 57, 57, 32, 79, 75>>
B_200_OK == <<50, 48, 48, 32, 79, 75>>
B_204_NO_CONTENT == <<50, 48, 52, 32, 78, 111, 32, 67, 111, 110, 116, 101, 110, 116>>
B_210_BREAK == <<50, 49, 48, 32, 66, 114, 101, 97, 107>>

StartLine(first, spaces, second) == first \o spaces \o second \o CRLF

\* per message type: two well-formed start lines, one without and one with two
\* separating spaces, an unknown first token, an unknown second token, and a
\* start line cut short
StartLines(p) ==
    CASE p = "v3_request" ->
           { StartLine(B_GET, <<SP>>, B_SHIORI_30),
             StartLine(B_NOTIFY, <<SP>>, B_SHIORI_30),
             StartLine(B_GET, <<>>, B_SHIORI_30),
             StartLine(B_GET, <<SP, SP>>, B_SHIORI_30),
             StartLine(B_FOO, <<SP>>, B_SHIORI_30),
             StartLine(B_GET, <<SP>>, B_SHIORI_20),
             SubSeq(StartLine(B_GET, <<SP>>, B_SHIORI_30), 1, 7) }
      [] p = "v3_response" ->
           { StartLine(B_SHIORI_30, <<SP>>, B_200_OK),
             StartLine(B_SHIORI_30, <<SP>>, B_204_NO_CONTENT),
             StartLine(B_SHIORI_30, <<>>, B_200_OK),
             StartLine(B_SHIORI_30, <<SP, SP>>, B_200_OK),
             StartLine(B_SHIORI_20, <<SP>>, B_200_OK),
             StartLine(B_SHIORI_30, <<SP>>, B_999_OK),
             SubSeq(StartLine(B_SHIORI_30, <<SP>>, B_200_OK), 1, 6) }
      [] p = "sstp_request" ->
           { StartLine(B_NOTIFY, <<SP>>, B_SSTP_11),
             StartLine(B_SEND, <<SP>>, B_SSTP_14),
             StartLine(B_SEND, <<>>, B_SSTP_14),
             StartLine(B_SEND, <<SP, SP>>, B_SSTP_14),
             StartLine(B_FOO, <<SP>>, B_SSTP_11),
             StartLine(B_SEND, <<SP>>, B_SSTP_15),
             SubSeq(StartLine(B_SEND, <<SP>>, B_SSTP_14), 1, 7) }
      [] p = "sstp_response" ->
           { StartLine(B_SSTP_11, <<SP>>, B_200_OK),
             StartLine(B_SSTP_14, <<SP>>, B_210_BREAK),
             StartLine(B_SSTP_14, <<>>, B_200_OK),
             StartLine(B_SSTP_14, <<SP, SP>>, B_200_OK),
             StartLine(B_SSTP_15, <<SP>>, B_200_OK),
             StartLine(B_SSTP_14, <<SP>>, B_999_OK),
             SubSeq(StartLine(B_SSTP_14, <<SP>>, B_200_OK), 1, 6) }

HeaderLine(name, spaces, value) == name \o <<COLON>> \o spaces \o value \o CRLF

\* Charset lines with a supported name, an unsupported name and a byte that
\* is not ASCII; Sender lines with one, no and two spaces after the colon and
\* one without its line terminator; a name with a space in it; an empty name
HeaderLines ==
    { HeaderLine(B_Charset, <<SP>>, B_UTF8),
      HeaderLine(B_Charset, <<>>, B_ASCII),
      HeaderLine(B_Charset, <<SP>>, S_X),
      HeaderLine(B_Charset, <<SP>>, <<128>>),
      HeaderLine(B_Sender, <<SP>>, S_a),
      HeaderLine(B_Sender, <<>>, S_a),
      HeaderLine(B_Sender, <<SP, SP>>, S_a),
      B_Sender \o <<COLON, SP>> \o S_a,
      HeaderLine(<<97, 32, 98>>, <<SP>>, S_a),
      HeaderLine(<<>>, <<SP>>, S_a) }

\* the blank line; the blank line and one more byte; two blank lines; the
\* blank line and additional data, complete, followed by one more byte, and
\* without its own blank line; half a line terminator
Endings ==
    { CRLF,
      CRLF \o S_X,
      CRLF \o CRLF,
      CRLF \o S_a \o CRLF \o CRLF,
      CRLF \o S_a \o CRLF \o CRLF \o S_X,
      CRLF \o S_a \o CRLF,
      <<CR>> }

InitParse ==
    /\ proto \in Protos
    /\ pc = "raw0"
    /\ parts = IF IsV3(proto) THEN V3Parts ELSE SstpParts
    /\ calls = <<>>
    /\ built = NoBuilt
    /\ wire = <<>>
    /\ lines = 0
    /\ res = NoRes
    /\ UnitIdle

WriteStartLine ==
    /\ pc = "raw0"
    /\ pc' = "raw1"
    /\ \E l \in StartLines(proto) : wire' = l
    /\ UNCHANGED <<unit_vars, proto, parts, calls, built, lines, res>>

WriteHeaderLine ==
    /\ pc = "raw1"
    /\ lines < MaxLines
    /\ lines' = lines + 1
    /\ \E l \in HeaderLines : wire' = wire \o l
    /\ UNCHANGED <<unit_vars, proto, pc, parts, calls, built, res>>

WriteEnding ==
    /\ pc = "raw1"
    /\ pc' = "raw2"
    /\ \E e \in Endings : wire' = wire \o e
    /\ UNCHANGED <<unit_vars, proto, parts, calls, built, lines, res>>

NextParse ==
    \/ WriteStartLine
    \/ WriteHeaderLine
    \/ WriteEnding
    \/ Parse
    \/ ParseDispatch

SpecParse == InitParse /\ [][NextParse]_vars

(***************************************************************************)
(* HeaderValue on its own: a value is made from a string or from raw       *)
(* bytes and read back as text, and a builder is given the string as a     *)
(* header value.                                                           *)
(***************************************************************************)
\* the sequences over A of at most n elements
SeqsUpTo(A, n) == UNION { [1..k -> A] : k \in 0..n }

\* NUL, TAB, ESC, US, the space, "a", DEL, e with acute, the hiragana SA
ValueChars == {0, 9, 27, 31, 32, 97, 127, 233, HIRAGANA_SA}

ValueStrings == SeqsUpTo(ValueChars, MaxChars)

\* raw values: ASCII bytes, a byte that no charset decodes, and the bytes of
\* the hiragana SA under the charset
RawAtoms(charset) ==
    { <<b>> : b \in {0, 9, 27, 31, 32, 97, 127, 255} }
    \cup (IF charset = "ASCII" THEN {} ELSE {encode(S_sa, charset).val})

RawValues(charset) == { Concat(t) : t \in SeqsUpTo(RawAtoms(charset), MaxChars) }

\* Request::builder().method(..).version(..).header(SENDER, s).charset(c)
\* and its counterpart for responses
parts_with_header(p, s, charset) ==
    LET base == IF IsV3(p) THEN V3Parts ELSE SstpParts
        named == IF IsRequest(p)
                 THEN [base EXCEPT !.method = CHOOSE m \in MethodArgs(p) : TRUE,
                                   !.version = CHOOSE v \in VersionArgs(p) : TRUE]
                 ELSE [base EXCEPT !.version = CHOOSE v \in VersionArgs(p) : TRUE,
                                   !.status_code = "OK"]
    IN  IF IsV3(p) THEN v3_charset(v3_header(named, B_Sender, s), charset)
        ELSE sstp_charset(sstp_header(named, B_Sender, s), charset)

InitValue ==
    /\ MessageIdle
    /\ bag = EmptyBag
    /\ inserted = <<>>
    /\ hv \in { [NoValue EXCEPT !.stage = "new", !.charset = c] : c \in Charsets }
    /\ cur = NoCursor
    /\ rt = NoRuntime

FromStaticWithCharset ==
    /\ hv.stage = "new"
    /\ \E s \in ValueStrings :
         hv' = [hv EXCEPT !.stage = "static", !.s = s,
                          !.value = HeaderValue_from_static_with_charset(s, hv.charset)]
    /\ UNCHANGED <<message_vars, bag, inserted, cur, rt>>

FromBytes ==
    /\ hv.stage = "new"
    /\ \E b \in RawValues(hv.charset) :
         hv' = [hv EXCEPT !.stage = "raw", !.value = Ok(b, 0)]
    /\ UNCHANGED <<message_vars, bag, inserted, cur, rt>>

TextWithCharset ==
    /\ hv.stage \in {"static", "raw"}
    /\ hv.value.ok
    /\ hv' = [hv EXCEPT !.stage = "read",
                        !.text = HeaderValue_text_with_charset(hv.value.val, hv.charset)]
    /\ UNCHANGED <<message_vars, bag, inserted, cur, rt>>

BuildWithHeader ==
    /\ hv.stage = "new"
    /\ \E s \in ValueStrings, p \in Protos :
         LET given == parts_with_header(p, s, hv.charset)
         IN  CASE p = "v3_request" ->
                    hv' = [hv EXCEPT !.stage = "built", !.s = s,
                                     !.built = v3_RequestBuilder_build(given)]
               [] p = "v3_response" ->
                    hv' = [hv EXCEPT !.stage = "built", !.s = s,
                                     !.built = v3_ResponseBuilder_build(given)]
               [] p = "sstp_request" ->
                    \E o \in KeyOrders(given.headers) :
                        hv' = [hv EXCEPT !.stage = "built", !.s = s,
                                         !.built = sstp_RequestBuilder_build(given, o)]
               [] p = "sstp_response" ->
                    \E o \in KeyOrders(given.headers) :
                        hv' = [hv EXCEPT !.stage = "built", !.s = s,
                                         !.built = sstp_ResponseBuilder_build(given, o)]
    /\ UNCHANGED <<message_vars, bag, inserted, cur, rt>>

NextValue ==
    \/ FromStaticWithCharset
    \/ FromBytes
    \/ TextWithCharset
    \/ BuildWithHeader

SpecValue == InitValue /\ [][NextValue]_vars

(***************************************************************************)
(* Encoder and Decoder on their own: a string is encoded, the bytes are    *)
(* decoded under the same charset.                                         *)
(***************************************************************************)
\* ESC, the space, the reverse solidus, "a", the yen sign, e with acute, the
\* hiragana SA
CharsetChars == {27, 32, REVERSE_SOLIDUS, 97, YEN_SIGN, 233, HIRAGANA_SA}

CharsetStrings == SeqsUpTo(CharsetChars, MaxChars)

InitCharset == InitValue

Encode ==
    /\ hv.stage = "new"
    /\ \E s \in CharsetStrings :
         hv' = [hv EXCEPT !.stage = "encoded", !.s = s, !.value = encode(s, hv.charset)]
    /\ UNCHANGED <<message_vars, bag, inserted, cur, rt>>

Decode ==
    /\ hv.stage = "encoded"
    /\ hv.value.ok
    /\ hv' = [hv EXCEPT !.stage = "decoded", !.text = decode(hv.value.val, hv.charset)]
    /\ UNCHANGED <<message_vars, bag, inserted, cur, rt>>

NextCharset ==
    \/ Encode
    \/ Decode

SpecCharset == InitCharset /\ [][NextCharset]_vars

(***************************************************************************)
(* AdditionalData on its own: made from a string, then read as text.       *)
(***************************************************************************)
\* char::is_whitespace: the code points with the property White_Space
is_whitespace(c) ==
    c \in (9..13) \cup {32, 133, 160, 5760} \cup (8192..8202)
          \cup {8232, 8233, 8239, 8287, 12288}

RECURSIVE trim_start(_)
trim_start(s) ==
    IF s # <<>> /\ is_whitespace(Head(s)) THEN trim_start(Tail(s)) ELSE s

RECURSIVE trim_end(_)
trim_end(s) ==
    IF s # <<>> /\ is_whitespace(s[Len(s)]) THEN trim_end(SubSeq(s, 1, Len(s) - 1))
    ELSE s

\* str::trim
trim(s) == trim_end(trim_start(s))

AdditionalData_text_with_charset(data, charset) ==
    IF data.tag = "Empty" THEN Ok(<<>>, 0)
    ELSE LET v == decode(data.bytes, charset)
         IN  IF ~v.ok THEN v ELSE Ok(trim(v.val), 0)

\* the characters of ValueChars, the line feed and the carriage return
AdditionalStrings == SeqsUpTo(ValueChars \cup {LF, CR}, MaxChars)

InitAdditional == InitValue

AdditionalFromStaticWithCharset ==
    /\ hv.stage = "new"
    /\ \E s \in AdditionalStrings :
         hv' = [hv EXCEPT !.stage = "additional", !.s = s,
                          !.value = AdditionalData_from_static_with_charset(s, hv.charset)]
    /\ UNCHANGED <<message_vars, bag, inserted, cur, rt>>

AdditionalTextWithCharset ==
    /\ hv.stage = "additional"
    /\ hv.value.ok
    /\ hv' = [hv EXCEPT !.stage = "additional_read",
                        !.text = AdditionalData_text_with_charset(hv.value.val, hv.charset)]
    /\ UNCHANGED <<message_vars, bag, inserted, cur, rt>>

NextAdditional ==
    \/ AdditionalFromStaticWithCharset
    \/ AdditionalTextWithCharset

SpecAdditional == InitAdditional /\ [][NextAdditional]_vars

(***************************************************************************)
(* OrderedBag on its own, under a sequence of insert calls.                *)
(***************************************************************************)
BagKeys == {B_Charset, B_Sender, B_Script}
BagValues == {S_a, S_X}

InitBag ==
    /\ MessageIdle
    /\ UnitIdle

BagInsert ==
    /\ Len(inserted) < MaxInserts
    /\ \E k \in BagKeys, v \in BagValues :
         /\ bag' = bag_insert(bag, k, v)
         /\ inserted' = Append(inserted, <<k, v>>)
    /\ UNCHANGED <<message_vars, hv, cur, rt>>

NextBag == BagInsert

SpecBag == InitBag /\ [][NextBag]_vars

(***************************************************************************)
(* Properties.                                                             *)
(***************************************************************************)
\* what structural equality of two messages compares
same_message(a, b) ==
    /\ a.method = b.method
    /\ a.version = b.version
    /\ a.status_code = b.status_code
    /\ a.charset = b.charset
    /\ bag_iter(a.headers) = bag_iter(b.headers)

RoundTripDone == pc = "parsed" /\ built.ok /\ res.via = "direct"

\* C1: every message a builder's build() returns successfully is accepted by
\* parse when serialised with as_bytes(), and the parsed message equals the
\* built one in method, version, status code, charset and the ordered list
\* of (header name, header value bytes).
C1_BuildSerializeParseIsIdentity ==
    RoundTripDone => (res.kind = "Ok" /\ same_message(res.msg, built.val))

\* C2: every public parse entry point, the version-dispatching ones
\* included, returns Ok or Err for every input, also the empty one and those
\* shorter than the start-line prefix it inspects; none of them panics.
C2_ParseNeverPanics ==
    pc = "parsed" => res.kind \in {"Ok", "Err"}

\* the first Charset header value of a header bag names a supported charset
first_charset_is_valid(headers) ==
    LET text == HeaderValue_text(bag_get(headers, B_Charset))
    IN  text.ok /\ Charset_from_string(text.val).ok

\* C3: a SHIORI/3.0 message whose first Charset header value is not
\* ASCII-decodable or is not a supported charset name is rejected (with
\* FailedDecode or UnsupportedCharset): no message with such a header is
\* ever returned.
C3_ShioriInvalidCharsetIsRejected ==
    (pc = "parsed" /\ IsV3(proto) /\ res.kind = "Ok"
        /\ bag_contains(res.msg.headers, B_Charset))
    => first_charset_is_valid(res.msg.headers)

\* the first Charset header of message m, if any, names m's charset field
charset_consistent(m) ==
    bag_contains(m.headers, B_Charset) =>
        LET text == HeaderValue_text(bag_get(m.headers, B_Charset))
        IN  /\ text.ok
            /\ Charset_from_string(text.val).ok
            /\ Charset_from_string(text.val).val = m.charset

\* C4: in every message returned by a builder or by parse, the first Charset
\* header, if there is one, names the same charset as the charset field.
C4_CharsetHeaderAgreesWithField ==
    /\ built.ok => charset_consistent(built.val)
    /\ res.kind = "Ok" => charset_consistent(res.msg)

\* C5: the built message lists as many header entries as header() and
\* charset() calls were made, with the names in the order of the calls.
C5_BuilderKeepsCallOrder ==
    built.ok =>
        LET it == bag_iter(built.val.headers)
        IN  /\ Len(it) = Len(calls)
            /\ \A i \in 1..Len(calls) : it[i][1] = calls[i][1]

\* C6: an SSTP response built with additional(s) is accepted by parse when
\* serialised, and the parsed additional data bytes equal the built ones.
C6_AdditionalDataRoundTrips ==
    (RoundTripDone /\ proto = "sstp_response" /\ parts.additional.some)
    => (res.kind = "Ok" /\ res.msg.additional = built.val.additional)

Accepted == pc = "parsed" /\ res.via = "direct" /\ res.kind = "Ok"

\* the spellings of the first and of the second token of a start line
FirstTokens(p) ==
    CASE p = "v3_request" -> V3Methods
      [] p = "v3_response" -> V3Versions
      [] p = "sstp_request" -> SstpMethods
      [] p = "sstp_response" -> SstpVersions

SecondTokens(p) ==
    CASE p = "v3_request" -> V3Versions
      [] p = "v3_response" -> V3StatusCodes
      [] p = "sstp_request" -> SstpVersions
      [] p = "sstp_response" -> SstpStatusCodes

starts_with(b, bytes) == Len(b) >= Len(bytes) /\ SubSeq(b, 1, Len(bytes)) = bytes

\* b separates the two tokens of its start line by exactly one space, and
\* every colon of b is followed by exactly one space
single_spaced(p, b) ==
    /\ \E i \in 1..Len(FirstTokens(p)), j \in 1..Len(SecondTokens(p)) :
         starts_with(b, FirstTokens(p)[i].bytes \o <<SP>> \o SecondTokens(p)[j].bytes \o CRLF)
    /\ \A k \in 1..Len(b) :
         b[k] = COLON => /\ k + 2 <= Len(b)
                         /\ b[k + 1] = SP
                         /\ b[k + 2] # SP

\* C7 as stated: serialising the message parsed from an accepted input
\* reproduces that input byte for byte.
C7_SerializeReproducesInput ==
    Accepted => as_bytes(proto, res.msg) = wire

\* C7 as the code has it: serialising the message parsed from an accepted
\* input gives an input that parse accepts as the same message, with the same
\* header order and duplicates, and it gives back the input byte for byte when
\* the input has exactly one space between the start-line tokens and after
\* each colon.
C7_SerializeReproducesSingleSpacedInput ==
    Accepted =>
        LET again == parse(proto, as_bytes(proto, res.msg))
        IN  /\ again.ok
            /\ again.val = res.msg
            /\ single_spaced(proto, wire) => as_bytes(proto, res.msg) = wire

\* an accepted single-spaced input with a duplicated header name
C7_Witness ==
    /\ Accepted
    /\ single_spaced(proto, wire)
    /\ Len(bag_get_all(res.msg.headers, B_Sender)) = 2

\* the parser of the first (second) start-line token of a message type
parse_first(p, b) ==
    CASE p = "v3_request" -> v3_parse_method(b, 0)
      [] p = "v3_response" -> v3_parse_version(b, 0)
      [] p = "sstp_request" -> sstp_parse_method(b, 0)
      [] p = "sstp_response" -> sstp_parse_version(b, 0)

parse_second(p, b) ==
    LET pos == skip_spaces(b, parse_first(p, b).pos).pos
    IN  CASE p = "v3_request" -> v3_parse_version(b, pos)
          [] p = "v3_response" -> v3_parse_status_code(b, pos)
          [] p = "sstp_request" -> sstp_parse_version(b, pos)
          [] p = "sstp_response" -> sstp_parse_status_code(b, pos)

\* the token was read in full and matches no arm
unrecognised(r) == ~r.ok /\ r.err = "Io.Other"

\* the error the claim names for the first (second) token of a message type
FirstTokenError(p) == IF IsRequest(p) THEN "InvalidMethod" ELSE "InvalidVersion"
SecondTokenError(p) == IF IsRequest(p) THEN "InvalidVersion" ELSE "InvalidStatusCode"

\* C8: a parse that fails on an unrecognised method returns InvalidMethod, on
\* an unrecognised version InvalidVersion, on an unrecognised status code
\* InvalidStatusCode.
C8_StartLineErrorsAreSpecific ==
    (pc = "parsed" /\ res.via = "direct") =>
        /\ unrecognised(parse_first(proto, wire)) =>
             (res.kind = "Err" /\ res.err = FirstTokenError(proto))
        /\ (parse_first(proto, wire).ok /\ unrecognised(parse_second(proto, wire))) =>
             (res.kind = "Err" /\ res.err = SecondTokenError(proto))

\* C9: an accepted request has at least one space between its method and its
\* version.
C9_RequestNeedsSpaceAfterMethod ==
    (Accepted /\ IsRequest(proto)) =>
        \E i \in 1..Len(FirstTokens(proto)) :
            starts_with(wire, FirstTokens(proto)[i].bytes \o <<SP>>)

\* bytes and byte strings appended to an accepted input
ExtraBytes == {<<88>>, <<SP>>, <<CR>>, <<LF>>, <<0>>}
ExtraBlocks == ExtraBytes \cup {CRLF, <<97>> \o CRLF \o CRLF, CRLF \o CRLF}

\* C10: an accepted input is consumed to its last byte, which ends the blank
\* line that terminates the message (for an SSTP response with additional
\* data, the blank line of the additional data), and the input with anything
\* appended is rejected; only an SSTP response accepted without additional
\* data can be continued, by a whole additional-data block.
C10_AcceptedOnlyAtEndOfInput ==
    Accepted =>
        /\ res.pos = Len(wire)
        /\ ends_with(wire, CRLF \o CRLF)
        /\ \A x \in ExtraBytes : ~parse(proto, wire \o x).ok
        /\ \A x \in ExtraBlocks :
             LET longer == parse(proto, wire \o x)
             IN  longer.ok => /\ proto = "sstp_response"
                              /\ res.msg.additional = Empty
                              /\ longer.val.additional.tag = "Text"

\* an accepted SSTP response with a header and additional data
C10_Witness ==
    /\ Accepted
    /\ proto = "sstp_response"
    /\ res.msg.additional.tag = "Text"
    /\ Len(res.msg.additional.bytes) > 0
    /\ lines = 2

has_blank_line(b) == \E i \in 1..(Len(b) - 3) : SubSeq(b, i, i + 3) = CRLF \o CRLF

\* the number of bytes of b up to the end of its first blank line
header_block_end(b) ==
    LET ends == { i \in 4..Len(b) : SubSeq(b, i - 3, i) = CRLF \o CRLF }
    IN  CHOOSE i \in ends : \A j \in ends : i <= j

rejected_as_eof(p, b) ==
    LET r == parse(p, b)
    IN  ~r.ok /\ r.err = "Io.UnexpectedEof"

\* C11: an input without a blank line is never accepted, and an accepted
\* input cut anywhere before the end of the blank line that terminates its
\* header block (after a complete header line, inside a header line, inside
\* the start line or one of its tokens) is rejected with the Io error of
\* kind UnexpectedEof.
C11_TruncatedInputIsUnexpectedEof ==
    (pc = "parsed" /\ res.via = "direct") =>
        /\ ~has_blank_line(wire) => res.kind = "Err"
        /\ \/ res.err = "Io.UnexpectedEof"
           \/ has_blank_line(wire)
           \/ ~parse(proto, wire \o CRLF).ok
        /\ res.kind = "Ok" =>
             \A n \in 0..(header_block_end(wire) - 1) :
                 rejected_as_eof(proto, Prefix(wire, n))

\* a start line and two complete header lines without the blank line, parsed
C11_Witness ==
    /\ pc = "parsed"
    /\ res.via = "direct"
    /\ lines = 2
    /\ ~has_blank_line(wire)
    /\ parse(proto, wire \o CRLF).ok
    /\ res.kind = "Err"

\* the cursor after the start line of b, when the start line is well-formed
start_line_end(p, b) ==
    LET second == parse_second(p, b)
    IN  IF parse_first(p, b).ok /\ second.ok THEN skip_newline(b, second.pos)
        ELSE Err("none", 0)

\* the complete lines of b from pos up to the first blank line
RECURSIVE header_lines_from(_, _)
header_lines_from(b, pos) ==
    LET line == read_until(b, pos, CRLF)
    IN  IF ~line.ok \/ line.val = <<>> THEN <<>>
        ELSE <<line.val>> \o header_lines_from(b, line.pos)

\* RFC 7230 tchar: "!#$%&'*+-.^_`|~", DIGIT and ALPHA
TokenChars ==
    {33, 35, 36, 37, 38, 39, 42, 43, 45, 46, 94, 95, 96, 124, 126}
    \cup (48..57) \cup (65..90) \cup (97..122)

\* the line has a name (the bytes before its first colon) with a byte that is
\* no tchar
bad_name(line) ==
    /\ \E i \in 1..Len(line) : line[i] = COLON
    /\ LET name == read_until(line, 0, <<COLON>>).val
       IN  \E i \in 1..Len(name) : name[i] \notin TokenChars

\* control characters, the space, the delimiters "(),/;<=>?@[\]{} and bytes
\* that are not ASCII
BadBytes ==
    {0, 9, 10, 13, 31, 127, 32, 34, 40, 41, 44, 47, 59, 60, 61, 62, 63, 64,
     91, 92, 93, 123, 125, 128, 255}

BadNames == { <<97, c, 98>> : c \in BadBytes } \cup { <<c>> : c \in BadBytes }

\* the offsets of b at which a line of its header block starts or its blank
\* line starts
line_starts(b) ==
    { k \in 2..(header_block_end(b) - 2) : SubSeq(b, k - 1, k) = CRLF }

insert_at(b, k, x) == SubSeq(b, 1, k) \o x \o SubSeq(b, k + 1, Len(b))

rejected_as(p, b, e) ==
    LET r == parse(p, b)
    IN  ~r.ok /\ r.err = e

\* names with a space, a delimiter, a control character, a byte that is not
\* ASCII, and a two-byte UTF-8 character
SomeBadNames == { <<97, 32, 98>>, <<40>>, <<97, 0>>, <<127, 97>>, <<128>>, <<195, 169>> }

\* C12: an input with a well-formed start line whose header block has a
\* complete line with a name that holds a byte outside the RFC 7230 token
\* characters is rejected with InvalidHeaderName, whatever follows that
\* line; an accepted input with such a header line put before, between or
\* after its header lines is rejected with InvalidHeaderName; and so is an
\* accepted input without header lines given one header line whose name holds
\* any one of the bytes outside the token characters.
C12_BadHeaderNameIsRejected ==
    (pc = "parsed" /\ res.via = "direct") =>
        /\ \/ res.kind = "Err" /\ res.err = "InvalidHeaderName"
           \/ ~start_line_end(proto, wire).ok
           \/ LET ls == header_lines_from(wire, start_line_end(proto, wire).pos)
              IN  \A i \in 1..Len(ls) : ~bad_name(ls[i])
        /\ res.kind = "Ok" =>
             \A n \in SomeBadNames, k \in line_starts(wire) :
                 rejected_as(proto, insert_at(wire, k, HeaderLine(n, <<SP>>, S_a)),
                             "InvalidHeaderName")
        /\ (res.kind = "Ok" /\ lines = 0) =>
             \A n \in BadNames, k \in line_starts(wire) :
                 rejected_as(proto, insert_at(wire, k, HeaderLine(n, <<SP>>, S_a)),
                             "InvalidHeaderName")

\* a well-formed header line followed by one with a space in its name
C12_Witness ==
    /\ pc = "parsed"
    /\ res.via = "direct"
    /\ res.err = "InvalidHeaderName"
    /\ start_line_end(proto, wire).ok
    /\ LET ls == header_lines_from(wire, start_line_end(proto, wire).pos)
       IN  Len(ls) = 2 /\ ~bad_name(ls[1]) /\ bad_name(ls[2])

\* 0x00-0x1F and 0x7F
ControlChars == (0..31) \cup {127}

has_control(s) == \E i \in 1..Len(s) : s[i] \in ControlChars

\* C13: from_static_with_charset fails with UnprintableCharacters, whatever
\* the charset and whether or not the string could be encoded, for every
\* string with a control character; text_with_charset fails whenever the
\* bytes decode to a text with a control character, and under every charset
\* but ISO-2022-JP whenever the bytes hold a control byte; and a builder
\* given a header value with a control character fails to build.
C13_ControlCharactersAreRejected ==
    /\ (hv.stage = "static" /\ has_control(hv.s)) =>
         (~hv.value.ok /\ hv.value.err = "UnprintableCharacters")
    /\ hv.stage = "read" =>
         /\ (decode(hv.value.val, hv.charset).ok
               /\ has_control(decode(hv.value.val, hv.charset).val)) =>
                (~hv.text.ok /\ hv.text.err = "UnprintableCharacters")
         /\ (has_control(hv.value.val) /\ hv.charset # "ISO2022JP") => ~hv.text.ok
    /\ (hv.stage = "built" /\ has_control(hv.s)) => ~hv.built.ok

\* Shift_JIS bytes of the hiragana SA and a DEL, read back as text
C13_Witness ==
    /\ hv.stage = "read"
    /\ hv.charset = "SHIFT_JIS"
    /\ hv.value.val = encode(S_sa, "SHIFT_JIS").val \o <<127>>
    /\ hv.text.err = "UnprintableCharacters"

\* the values of the pairs of seq whose key is k, in the order of seq
RECURSIVE values_under(_, _)
values_under(seq, k) ==
    IF seq = <<>> THEN <<>>
    ELSE (IF seq[1][1] = k THEN <<seq[1][2]>> ELSE <<>>) \o values_under(Tail(seq), k)

\* "Event", a key that is never inserted
B_Event == <<69, 118, 101, 110, 116>>

\* C14: after any sequence of insert calls, get_all(K) is the sequence of the
\* values inserted under K in insertion order (empty for a key never
\* inserted), and get(K) is the first of them (None for a key never
\* inserted), so that no later insert changes it.
C14_GetReturnsFirstAndGetAllReturnsAll ==
    \A k \in BagKeys \cup {B_Event} :
        /\ bag_get_all(bag, k) = values_under(inserted, k)
        /\ bag_contains(bag, k) <=> values_under(inserted, k) # <<>>
        /\ bag_contains(bag, k) => bag_get(bag, k) = values_under(inserted, k)[1]

\* a key inserted twice with different values, another key in between
C14_Witness ==
    /\ Len(inserted) = 3
    /\ inserted[2][1] # B_Sender
    /\ bag_get_all(bag, B_Sender) = <<S_a, S_X>>
    /\ bag_get(bag, B_Sender) = S_a

\* C15: after n insert calls iter() and into_iter() yield n pairs, the i-th
\* being the i-th inserted (key, value), and len() is n: entries of different
\* keys stay interleaved as inserted and no entry is overwritten or removed.
C15_IterYieldsInsertionOrder ==
    /\ bag_iter(bag) = inserted
    /\ bag_into_iter(bag) = inserted
    /\ bag_len(bag) = Len(inserted)

\* three inserts, the first and the third under one key, the second under
\* another
C15_Witness ==
    /\ bag_len(bag) = 3
    /\ bag_iter(bag)[1][1] = bag_iter(bag)[3][1]
    /\ bag_iter(bag)[2][1] # bag_iter(bag)[1][1]
    /\ bag_iter(bag)[1][2] # bag_iter(bag)[3][2]

\* the values given to the charset() calls, in call order
RECURSIVE charset_calls(_)
charset_calls(seq) ==
    IF seq = <<>> THEN <<>>
    ELSE (IF seq[1][3] = "charset" THEN <<seq[1][2]>> ELSE <<>>) \o charset_calls(Tail(seq))

\* a is b with some of its elements left out
RECURSIVE is_subsequence(_, _)
is_subsequence(a, b) ==
    IF a = <<>> THEN TRUE
    ELSE IF b = <<>> THEN FALSE
    ELSE IF a[1] = b[1] THEN is_subsequence(Tail(a), Tail(b))
    ELSE is_subsequence(a, Tail(b))

\* C16: when a builder that received at least one charset() call builds a
\* message, the charset field of the message is the argument of the first
\* charset() call, its Charset entries hold the arguments of the charset()
\* calls in call order, and parse accepts the serialised message and reports
\* that same first charset.
C16_FirstCharsetCallWins ==
    (built.ok /\ charset_calls(calls) # <<>>) =>
        /\ Charset_to_string(built.val.charset) = charset_calls(calls)[1]
        /\ is_subsequence(charset_calls(calls), bag_get_all(built.val.headers, B_Charset))
        /\ RoundTripDone =>
             (res.kind = "Ok"
                /\ Charset_to_string(res.msg.charset) = charset_calls(calls)[1])

\* the values given to the header() calls named name, in call order
RECURSIVE header_calls(_, _)
header_calls(seq, name) ==
    IF seq = <<>> THEN <<>>
    ELSE (IF seq[1][3] = "header" /\ seq[1][1] = name THEN <<seq[1][2]>> ELSE <<>>)
         \o header_calls(Tail(seq), name)

\* the header values of message m under name, as texts in the charset of m
texts_under(m, name) ==
    LET got == bag_get_all(m.headers, name)
    IN  [i \in 1..Len(got) |-> decode(got[i], m.charset)]

\* C17: when a builder received two or more header() calls with the same
\* name (Sender or Script here) and its message is built, serialised and
\* parsed, get_all for that name returns as many values as there were calls,
\* and the i-th of them is the value of the i-th call.
C17_RepeatedHeadersRoundTrip ==
    RoundTripDone =>
        \A name \in {B_Sender, B_Script} :
            Len(header_calls(calls, name)) >= 2 =>
                /\ res.kind = "Ok"
                /\ Len(texts_under(res.msg, name)) = Len(header_calls(calls, name))
                /\ \A i \in 1..Len(header_calls(calls, name)) :
                      /\ texts_under(res.msg, name)[i].ok
                      /\ texts_under(res.msg, name)[i].val = header_calls(calls, name)[i]

\* b without its leading spaces
RECURSIVE strip_spaces(_)
strip_spaces(b) == IF b # <<>> /\ b[1] = SP THEN strip_spaces(Tail(b)) ELSE b

\* the header line with the run of spaces after its first colon replaced
respaced_line(line, spaces) ==
    LET name == read_until(line, 0, <<COLON>>)
    IN  IF ~name.ok THEN line \o CRLF
        ELSE HeaderLine(name.val, spaces,
                        strip_spaces(SubSeq(line, name.pos + 1, Len(line))))

\* the input with the run of spaces after the colon of every header line
\* replaced; the start line and what follows the header lines are kept
respaced(p, b, spaces) ==
    LET from == start_line_end(p, b).pos
        ls == header_lines_from(b, from)
        to == from + Len(Concat([i \in 1..Len(ls) |-> ls[i] \o CRLF]))
    IN  SubSeq(b, 1, from)
        \o Concat([i \in 1..Len(ls) |-> respaced_line(ls[i], spaces)])
        \o SubSeq(b, to + 1, Len(b))

SpaceRuns == { <<>>, <<SP>>, <<SP, SP>>, <<SP, SP, SP>> }

\* "X-A", a name outside the well-known names
B_X_A == <<88, 45, 65>>

\* no value, "a", "a b", "a " and a byte that is not ASCII
LineValues == { <<>>, S_a, <<97, 32, 98>>, <<97, 32>>, <<128>> }

\* C18: an accepted input is accepted as the same message with no, one, two
\* or three spaces after the colon of each of its header lines; and a header
\* line of any of these forms, added before or after the header line of an
\* accepted input with at most one, is accepted and parses to the value that
\* follows its spaces.
C18_SpacesAfterColonAreSkipped ==
    Accepted =>
        /\ \A spaces \in SpaceRuns :
              LET again == parse(proto, respaced(proto, wire, spaces))
              IN  again.ok /\ again.val = res.msg
        /\ lines <= 1 =>
              \A spaces \in SpaceRuns, name \in {B_Script, B_X_A}, v \in LineValues,
                 k \in line_starts(wire) :
                  LET one == parse(proto, insert_at(wire, k, HeaderLine(name, spaces, v)))
                  IN  one.ok /\ bag_get_all(one.val.headers, name) = <<v>>

\* an accepted input with two header lines, at least one of them with two
\* spaces or the two with different runs of spaces after the colon
C18_Witness ==
    /\ Accepted
    /\ lines = 2
    /\ respaced(proto, wire, <<>>) # wire
    /\ respaced(proto, wire, <<SP>>) # wire

\* no complete line of the header block of b is named Charset
no_charset_line(p, b) ==
    LET ls == header_lines_from(b, start_line_end(p, b).pos)
    IN  \A i \in 1..Len(ls) : read_until(ls[i], 0, <<COLON>>).val # B_Charset

\* b with "Charset: UTF-8" as the first line of its header block
with_charset_line(p, b) ==
    insert_at(b, start_line_end(p, b).pos, HeaderLine(B_Charset, <<SP>>, B_UTF8))

\* b is a message of kind p in every respect but the Charset header it lacks
well_formed_without_charset(p, b) ==
    /\ start_line_end(p, b).ok
    /\ no_charset_line(p, b)
    /\ parse(p, with_charset_line(p, b)).ok

\* the version-dispatching entry point hands b to the SHIORI/3.0 parser
routed_to_v3(p, b) ==
    IF p = "v3_request" THEN types_Request_route(b) = "V3"
    ELSE Len(b) >= 8 /\ B_SHIORI_3 = Prefix(b, 8)

\* C19: an input that lacks only a Charset header is rejected with
\* MissingHeader by the SSTP parsers; the SHIORI/3.0 parsers, called directly
\* or through the dispatching entry point that routes to them, accept it,
\* report the charset ASCII and keep no Charset header.
C19_MissingCharsetIsRejectedBySstpDefaultedByV3 ==
    pc = "parsed" =>
        \/ IF IsV3(proto)
           THEN /\ res.kind = "Ok"
                /\ res.msg.charset = "ASCII"
                /\ ~bag_contains(res.msg.headers, B_Charset)
           ELSE res.kind = "Err" /\ res.err = "MissingHeader"
        \/ res.via = "types" /\ ~routed_to_v3(proto, wire)
        \/ ~well_formed_without_charset(proto, wire)

\* an SSTP input with a Sender line and no Charset line, rejected
C19_Witness ==
    /\ pc = "parsed"
    /\ ~IsV3(proto)
    /\ lines >= 1
    /\ well_formed_without_charset(proto, wire)
    /\ res.err = "MissingHeader"

\* build() has returned
Built == pc = "built"

\* charset() was called on the builder
charset_called == \E i \in 1..Len(calls) : calls[i][3] = "charset"

\* the required fields of a message of kind p
RequiredFields(p) ==
    (IF IsRequest(p) THEN {"method", "version"} ELSE {"version", "status_code"})
    \cup (IF IsV3(p) THEN {} ELSE {"charset"})

\* the required fields no builder call has set
MissingFields ==
    { f \in RequiredFields(proto) :
        CASE f = "method" -> parts.method = "none"
          [] f = "version" -> parts.version = "none"
          [] f = "status_code" -> parts.status_code = "none"
          [] f = "charset" -> ~charset_called }

MissingError(f) ==
    CASE f = "method" -> "MissingMethod"
      [] f = "version" -> "MissingVersion"
      [] f = "status_code" -> "MissingStatusCode"
      [] f = "charset" -> "MissingCharset"

\* C20: build() returns Ok only when no required field is missing; with
\* exactly one required field missing it returns the error of that field;
\* a SHIORI/3.0 builder on which charset() was never called never returns
\* MissingCharset and, when it returns Ok, the message has the charset ASCII.
C20_BuildRequiresEveryRequiredField ==
    Built =>
        /\ built.ok => MissingFields = {}
        /\ \A f \in RequiredFields(proto) :
              MissingFields = {f} => ~built.ok /\ built.err = MissingError(f)
        /\ (IsV3(proto) /\ ~charset_called) =>
              /\ built.err # "MissingCharset"
              /\ built.ok => built.val.charset = "ASCII"

\* an SSTP builder with a header and every required field but the charset
C20_Witness ==
    /\ Built
    /\ ~IsV3(proto)
    /\ Len(calls) >= 1
    /\ MissingFields = {"charset"}
    /\ built.err = "MissingCharset"

\* the string is not empty and has no line feed and no carriage return
single_line(s) == s # <<>> /\ \A i \in 1..Len(s) : s[i] \notin {LF, CR}

\* C21: the text of the additional data made from a non-empty single-line
\* string s under a charset, read under the same charset, is s.
C21_AdditionalTextReturnsTheString ==
    (hv.stage = "additional_read" /\ single_line(hv.s)) =>
        (hv.text.ok /\ hv.text.val = hv.s)

(***************************************************************************)
(* The parsers taken one step at a time: the start line, one iteration of  *)
(* the header loop, the charset lookup, a line terminator, the test for    *)
(* additional data, one iteration of the additional-data loop, the end of  *)
(* input.                                                                  *)
(***************************************************************************)
\* a Charset line, a Sender line with two spaces, a Sender line without its
\* line terminator, a line with an empty name, a line without a colon
CursorLines ==
    { HeaderLine(B_Charset, <<SP>>, B_UTF8),
      HeaderLine(B_Sender, <<SP, SP>>, S_a),
      B_Sender \o <<COLON, SP>> \o S_a,
      HeaderLine(<<>>, <<SP>>, S_a),
      S_a \o CRLF }

CursorInputs(p) ==
    { l \o Concat(h) \o e : l \in StartLines(p), h \in SeqsUpTo(CursorLines, MaxLines),
                            e \in Endings }

\* no parse makes more steps than its input has bytes, but for the steps
\* that read nothing
StepLimit(inp) == Len(inp) + 8

Stepping == cur.phase \notin {"idle", "input", "ok", "err"} /\ cur.steps < StepLimit(wire)

\* the cursor after a step that ended at position pos in the given phase
Stepped(phase, pos) == [cur EXCEPT !.phase = phase, !.pos = pos, !.steps = cur.steps + 1]

\* the cursor after a statement with the result r
StepResult(r, phase) == IF r.ok THEN Stepped(phase, r.pos) ELSE Stepped("err", r.pos)

InitCursor ==
    /\ proto \in Protos
    /\ pc = "idle"
    /\ parts = V3Parts
    /\ calls = <<>>
    /\ built = NoBuilt
    /\ wire = <<>>
    /\ lines = 0
    /\ res = NoRes
    /\ bag = EmptyBag
    /\ inserted = <<>>
    /\ hv = NoValue
    /\ cur = [NoCursor EXCEPT !.phase = "input"]
    /\ rt = NoRuntime

\* Cursor::new(buf)
StepInput ==
    /\ cur.phase = "input"
    /\ wire' \in CursorInputs(proto)
    /\ cur' = [cur EXCEPT !.phase = "start"]
    /\ UNCHANGED <<proto, pc, parts, calls, built, lines, res, bag, inserted, hv, rt>>

\* parse_method / parse_version, skip_spaces, parse_version /
\* parse_status_code, skip_newline
StepStartLine ==
    /\ Stepping
    /\ cur.phase = "start"
    /\ cur' = IF ~parse_first(proto, wire).ok
              THEN StepResult(parse_first(proto, wire), "headers")
              ELSE IF ~parse_second(proto, wire).ok
              THEN StepResult(parse_second(proto, wire), "headers")
              ELSE StepResult(skip_newline(wire, parse_second(proto, wire).pos), "headers")
    /\ UNCHANGED <<message_vars, bag, inserted, hv, rt>>

\* the header line at pos: its name, the spaces and its value
header_line_at(inp, pos) ==
    LET name == read_until(inp, pos, <<COLON>>)
    IN  IF ~name.ok THEN name
        ELSE LET value == read_until(inp, skip_spaces(inp, name.pos).pos, CRLF)
             IN  IF ~value.ok THEN value
                 ELSE IF ~HeaderName_from_bytes(name.val).ok
                 THEN Err("InvalidHeaderName", value.pos)
                 ELSE Ok(<<HeaderName_from_bytes(name.val).val, value.val>>, value.pos)

\* one iteration of the loop of parse_headers
StepHeader ==
    /\ Stepping
    /\ cur.phase = "headers"
    /\ cur' = IF ~lookahead(wire, cur.pos, 2).ok
              THEN StepResult(lookahead(wire, cur.pos, 2), "err")
              ELSE IF lookahead(wire, cur.pos, 2).val = CRLF
              THEN Stepped("charset", cur.pos)
              ELSE IF ~header_line_at(wire, cur.pos).ok
              THEN StepResult(header_line_at(wire, cur.pos), "err")
              ELSE [Stepped("headers", header_line_at(wire, cur.pos).pos)
                      EXCEPT !.headers = bag_insert(cur.headers,
                                                    header_line_at(wire, cur.pos).val[1],
                                                    header_line_at(wire, cur.pos).val[2])]
    /\ UNCHANGED <<message_vars, bag, inserted, hv, rt>>

\* the charset of the message: required by the SSTP parsers
StepCharset ==
    /\ Stepping
    /\ cur.phase = "charset"
    /\ cur' = IF IsV3(proto) \/ charset_header(cur.headers).ok
              THEN Stepped("newline", cur.pos)
              ELSE Stepped("err", cur.pos)
    /\ UNCHANGED <<message_vars, bag, inserted, hv, rt>>

\* skip_newline after the headers and after the additional data
StepNewline ==
    /\ Stepping
    /\ cur.phase \in {"newline", "last_newline"}
    /\ cur' = StepResult(skip_newline(wire, cur.pos),
                         IF cur.phase = "newline" /\ proto = "sstp_response"
                         THEN "additional" ELSE "eof")
    /\ UNCHANGED <<message_vars, bag, inserted, hv, rt>>

\* parse_additional_data: no data at the end of input
StepAdditional ==
    /\ Stepping
    /\ cur.phase = "additional"
    /\ cur' = IF eof(wire, cur.pos).ok THEN Stepped("eof", cur.pos)
              ELSE Stepped("additional_loop", cur.pos)
    /\ UNCHANGED <<message_vars, bag, inserted, hv, rt>>

\* one iteration of the loop of parse_additional_data
StepAdditionalLine ==
    /\ Stepping
    /\ cur.phase = "additional_loop"
    /\ cur' = IF ~lookahead(wire, cur.pos, 2).ok
              THEN StepResult(lookahead(wire, cur.pos, 2), "err")
              ELSE IF lookahead(wire, cur.pos, 2).val = CRLF
              THEN Stepped("last_newline", cur.pos)
              ELSE StepResult(read_until(wire, cur.pos, CRLF), "additional_loop")
    /\ UNCHANGED <<message_vars, bag, inserted, hv, rt>>

StepEof ==
    /\ Stepping
    /\ cur.phase = "eof"
    /\ cur' = StepResult(eof(wire, cur.pos), "ok")
    /\ UNCHANGED <<message_vars, bag, inserted, hv, rt>>

NextCursor ==
    \/ StepInput
    \/ StepStartLine
    \/ StepHeader
    \/ StepCharset
    \/ StepNewline
    \/ StepAdditional
    \/ StepAdditionalLine
    \/ StepEof

SpecCursor == InitCursor /\ [][NextCursor]_vars

\* a read primitive started at pos leaves the cursor at pos or after it and
\* within the input; a lookahead that succeeds leaves it at pos
primitive_in_bounds(inp, pos, r) == pos <= r.pos /\ r.pos <= Len(inp)

primitives_in_bounds(inp) ==
    \A pos \in 0..Len(inp) :
        /\ \A n \in 1..2 : primitive_in_bounds(inp, pos, read(inp, pos, n))
        /\ primitive_in_bounds(inp, pos, read_expect(inp, pos, CRLF))
        /\ primitive_in_bounds(inp, pos, read_repeat(inp, pos, <<SP>>))
        /\ primitive_in_bounds(inp, pos, read_until(inp, pos, <<COLON>>))
        /\ primitive_in_bounds(inp, pos, read_until(inp, pos, CRLF))
        /\ primitive_in_bounds(inp, pos, lookahead(inp, pos, 2))
        /\ lookahead(inp, pos, 2).ok => lookahead(inp, pos, 2).pos = pos

Terminated == cur.phase \in {"ok", "err"}

\* a step never moves the cursor back, and an iteration of the header loop
\* or of the additional-data loop that does not leave the loop moves it
\* forward
StepAdvances ==
    /\ cur'.pos >= cur.pos
    /\ (cur'.phase = cur.phase /\ cur.phase \in {"headers", "additional_loop"}) =>
           cur'.pos > cur.pos

\* C22: on every input parse ends with Ok or Err after fewer steps than the
\* input has bytes plus eight: a parse that has not ended has taken fewer
\* steps than that, so its next step can be taken, and every step counts.
\* On the way the cursor stays within the input, no step moves it back,
\* every iteration of the header loop and of the additional-data loop that
\* continues consumes at least one byte, every read primitive leaves the
\* cursor at or after the position it started from and a lookahead leaves
\* it where it was.
C22_ParseTerminatesWithinTheInput ==
    /\ [](cur.pos <= Len(wire))
    /\ [](cur.phase = "start" => primitives_in_bounds(wire))
    /\ [](cur.phase \notin {"input", "ok", "err"} => Stepping)
    /\ [][cur' # cur => cur'.steps = cur.steps + 1 \/ cur.phase = "input"]_vars
    /\ [][StepAdvances]_vars

\* an SSTP response accepted after two iterations of the header loop and two
\* lines of additional data
C22_Witness ==
    /\ cur.phase = "ok"
    /\ proto = "sstp_response"
    /\ bag_len(cur.headers) = 2
    /\ cur.steps >= 10

\* C23: a string without control characters that is encoded under a
\* charset is decoded under the same charset to the same string.
C23_DecodeInvertsEncode ==
    (hv.stage = "decoded" /\ ~has_control(hv.s)) =>
        (hv.text.ok /\ hv.text.val = hv.s)

(***************************************************************************)
(* The SHIORI runtime.  Shiori<C, S> keeps Option<Context<C>> behind a      *)
(* tokio RwLock.  load and unload take the lock for writing and run to     *)
(* their end without an await; request takes it for reading and keeps the  *)
(* guard across the await of the service call.  Waiters get the lock in    *)
(* the order they asked for it.                                            *)
(***************************************************************************)
Paths == {"ghost", "broken"}

\* ContextData::new(path) of the embedding program: fails on a path that
\* holds no ghost
ContextData_new(path) ==
    IF path = "broken" THEN [ok |-> FALSE, err |-> "new failed"]
    ELSE [ok |-> TRUE, err |-> "none"]

Returned(kind, err) == [NoOutcome EXCEPT !.kind = kind, !.err = err]

\* load that replaces a context that is already loaded
Shiori_load_replacing(context, path, id) ==
    LET data == ContextData_new(path)
    IN  IF ~data.ok THEN [out |-> Returned("err", data.err), context |-> context]
        ELSE [out |-> Returned("ok", "none"), context |-> SomeContext(path, id)]

\* load that stores a context although ContextData::new failed
Shiori_load_storing(context, path, id) ==
    IF context.some
    THEN [out |-> Returned("err", "context already loaded"), context |-> context]
    ELSE LET data == ContextData_new(path)
         IN  IF ~data.ok
             THEN [out |-> Returned("err", data.err), context |-> SomeContext(path, id)]
             ELSE [out |-> Returned("ok", "none"), context |-> SomeContext(path, id)]

\* the body of Shiori::load under the write guard; id names the Arc that
\* Context::new allocates
Shiori_load(context, path, id) ==
    IF context.some
    THEN [out |-> Returned("err", "context already loaded"), context |-> context]
    ELSE LET data == ContextData_new(path)
         IN  IF ~data.ok THEN [out |-> Returned("err", data.err), context |-> context]
             ELSE [out |-> Returned("ok", "none"), context |-> SomeContext(path, id)]

\* the body of Shiori::unload under the write guard
Shiori_unload(context) ==
    IF context.some THEN [out |-> Returned("ok", "none"), context |-> NoContext]
    ELSE [out |-> Returned("err", "context not loaded"), context |-> context]

ShioriError_new(e) == [source |-> e, version |-> "none", status_code |-> "none"]
ShioriError_with_status_code(e, status_code) == [e EXCEPT !.status_code = status_code]

\* Response::builder().version(..).status_code(..).build().expect(..)
ShioriError_into_response(e) ==
    LET version == IF e.version = "none" THEN "SHIORI_30" ELSE e.version
        status_code == IF e.status_code = "none" THEN "INTERNAL_SERVER_ERROR"
                       ELSE e.status_code
        r == v3_ResponseBuilder_build([V3Parts EXCEPT !.version = version,
                                                      !.status_code = status_code])
    IN  IF ~r.ok THEN Returned("panic", "failed to build error response")
        ELSE [NoOutcome EXCEPT !.kind = "response", !.version = r.val.version,
                               !.status_code = r.val.status_code]

\* what a service call resolves to: Ok(response) or Err(error)
HandlerOk(status_code) ==
    [ok |-> TRUE, err |-> ShioriError_new("none"),
     resp |-> [NoOutcome EXCEPT !.kind = "response", !.version = "SHIORI_30",
                                !.status_code = status_code]]
HandlerErr(e) == [ok |-> FALSE, err |-> e, resp |-> NoOutcome]
HandlerResults ==
    { HandlerOk("OK"),
      HandlerErr(ShioriError_new("handler error")),
      HandlerErr(ShioriError_with_status_code(ShioriError_new("handler error"),
                                              "BAD_REQUEST")) }

\* a request that calls the service although no context is loaded
Shiori_request_match_calling(context) ==
    [call |-> TRUE, ctx |-> context, result |-> HandlerOk("OK")]

\* match ctx.deref(): the service is called with a clone of the context,
\* or the result is the error "context not loaded"
Shiori_request_match(context) ==
    IF context.some THEN [call |-> TRUE, ctx |-> context, result |-> HandlerOk("OK")]
    ELSE [call |-> FALSE, ctx |-> NoContext,
          result |-> HandlerErr(ShioriError_new("context not loaded"))]

\* match result: the response, or the error turned into one
Shiori_request_result(result) ==
    IF result.ok THEN result.resp ELSE ShioriError_into_response(result.err)

\* a write lock that is granted while readers hold the lock
RwLock_write_ready_among_readers(r, t) == Len(r.queue) > 0 /\ Head(r.queue) = t

\* self.context.write().await is granted to the first waiter once no
\* reader holds the lock
RwLock_write_ready(r, t) ==
    Len(r.queue) > 0 /\ Head(r.queue) = t /\ r.readers = {}

\* self.context.read().await is granted to the first waiter; no writer
\* holds the lock between two steps
RwLock_read_ready(r, t) == Len(r.queue) > 0 /\ Head(r.queue) = t

InitRuntime ==
    /\ MessageIdle
    /\ bag = EmptyBag
    /\ inserted = <<>>
    /\ hv = NoValue
    /\ cur = NoCursor
    /\ rt = NoRuntime

CanCall(t) == rt.task[t].pc \in {"idle", "done"} /\ rt.ops < MaxOps

Called(t, op, path) ==
    [rt EXCEPT !.task[t] = [IdleTask EXCEPT !.op = op, !.pc = "waiting", !.path = path],
               !.queue = Append(rt.queue, t),
               !.ops = rt.ops + 1]

\* a task calls shiori.load(path) and waits for the lock
CallLoad ==
    /\ \E t \in Tasks, path \in Paths :
         /\ CanCall(t)
         /\ rt' = Called(t, "load", path)
    /\ UNCHANGED <<message_vars, bag, inserted, hv, cur>>

\* a task calls shiori.unload() and waits for the lock
CallUnload ==
    /\ \E t \in Tasks :
         /\ CanCall(t)
         /\ rt' = Called(t, "unload", "none")
    /\ UNCHANGED <<message_vars, bag, inserted, hv, cur>>

\* a task calls shiori.request(request) and waits for the lock
CallRequest ==
    /\ \E t \in Tasks :
         /\ CanCall(t)
         /\ rt' = Called(t, "request", "none")
    /\ UNCHANGED <<message_vars, bag, inserted, hv, cur>>

\* load gets the write guard, runs and returns
Load ==
    /\ \E t \in Tasks :
         /\ rt.task[t].op = "load" /\ rt.task[t].pc = "waiting"
         /\ RwLock_write_ready(rt, t)
         /\ LET l == Shiori_load(rt.context, rt.task[t].path, rt.loads + 1)
                failed == ~rt.context.some /\ ~ContextData_new(rt.task[t].path).ok
            IN  rt' = [rt EXCEPT !.context = l.context,
                                 !.queue = Tail(rt.queue),
                                 !.loads = IF l.out.kind = "ok" THEN rt.loads + 1
                                           ELSE rt.loads,
                                 !.new_failed = IF failed THEN TRUE
                                                ELSE IF l.out.kind = "ok" THEN FALSE
                                                ELSE rt.new_failed,
                                 !.task[t].pc = "done",
                                 !.task[t].seen = rt.context,
                                 !.task[t].out = l.out]
    /\ UNCHANGED <<message_vars, bag, inserted, hv, cur>>

\* unload gets the write guard, runs and returns
Unload ==
    /\ \E t \in Tasks :
         /\ rt.task[t].op = "unload" /\ rt.task[t].pc = "waiting"
         /\ RwLock_write_ready(rt, t)
         /\ LET u == Shiori_unload(rt.context)
            IN  rt' = [rt EXCEPT !.context = u.context,
                                 !.queue = Tail(rt.queue),
                                 !.task[t].pc = "done",
                                 !.task[t].seen = rt.context,
                                 !.task[t].out = u.out]
    /\ UNCHANGED <<message_vars, bag, inserted, hv, cur>>

\* request gets the read guard; with a context it calls the service and
\* awaits it under the guard, without one it returns the error response
RequestStart ==
    /\ \E t \in Tasks :
         /\ rt.task[t].op = "request" /\ rt.task[t].pc = "waiting"
         /\ RwLock_read_ready(rt, t)
         /\ LET m == Shiori_request_match(rt.context)
            IN  IF m.call
                THEN rt' = [rt EXCEPT !.queue = Tail(rt.queue),
                                      !.readers = rt.readers \cup {t},
                                      !.handled = rt.handled + 1,
                                      !.task[t].pc = "handling",
                                      !.task[t].seen = rt.context,
                                      !.task[t].ctx = m.ctx]
                ELSE rt' = [rt EXCEPT !.queue = Tail(rt.queue),
                                      !.task[t].pc = "done",
                                      !.task[t].seen = rt.context,
                                      !.task[t].out = Shiori_request_result(m.result)]
    /\ UNCHANGED <<message_vars, bag, inserted, hv, cur>>

\* the service call resolves; request returns and drops the read guard
RequestFinish ==
    /\ \E t \in Tasks, result \in HandlerResults :
         /\ rt.task[t].op = "request" /\ rt.task[t].pc = "handling"
         /\ rt' = [rt EXCEPT !.readers = rt.readers \ {t},
                             !.task[t].pc = "done",
                             !.task[t].out = Shiori_request_result(result)]
    /\ UNCHANGED <<message_vars, bag, inserted, hv, cur>>

NextRuntime ==
    \/ CallLoad
    \/ CallUnload
    \/ CallRequest
    \/ Load
    \/ Unload
    \/ RequestStart
    \/ RequestFinish

SpecRuntime == InitRuntime /\ [][NextRuntime]_vars

\* task t returns from op in this step
Returns(t, op) ==
    rt.task[t].op = op /\ rt.task[t].pc # "done" /\ rt'.task[t].pc = "done"

\* C24: a load that returns Ok found no context and leaves one loaded; a
\* load that finds a context returns "context already loaded" and leaves
\* that context in place; an unload returns Ok exactly when it finds a
\* context, and then leaves none; an unload that finds none returns
\* "context not loaded" and leaves none; nothing else changes the context.
C24_LoadAndUnloadAlternate ==
    [][/\ \A t \in Tasks :
            /\ Returns(t, "load") =>
                 /\ rt'.task[t].out.kind = "ok" =>
                      (~rt.context.some /\ rt'.context.some)
                 /\ rt.context.some =>
                      /\ rt'.task[t].out = Returned("err", "context already loaded")
                      /\ rt'.context = rt.context
            /\ Returns(t, "unload") =>
                 /\ rt'.task[t].out.kind = "ok" <=> rt.context.some
                 /\ rt'.task[t].out.kind = "ok" => rt'.context = NoContext
                 /\ ~rt.context.some =>
                      /\ rt'.task[t].out = Returned("err", "context not loaded")
                      /\ rt'.context = NoContext
       /\ rt'.context # rt.context =>
            \E t \in Tasks : /\ Returns(t, "load") \/ Returns(t, "unload")
                             /\ rt'.task[t].out.kind = "ok"]_vars

\* a load was refused because a context is loaded and an unload was refused
\* because none was, and the context that was loaded is still there
C24_Witness ==
    /\ rt.context.some
    /\ \E t \in Tasks : /\ rt.task[t].op = "load"
                        /\ rt.task[t].out = Returned("err", "context already loaded")
                        /\ rt.task[t].seen = rt.context
    /\ \E t \in Tasks : /\ rt.task[t].op = "unload"
                        /\ rt.task[t].out = Returned("err", "context not loaded")

\* the response of ShioriError::new(..).into_response()
ErrorResponse ==
    [NoOutcome EXCEPT !.kind = "response", !.version = "SHIORI_30",
                      !.status_code = "INTERNAL_SERVER_ERROR"]

\* task t gets the lock in this step
Acquires(t) == rt.task[t].pc = "waiting" /\ rt'.task[t].pc # "waiting"

\* C25: every request that has returned has returned a response, and a
\* request that gets the lock while no context is loaded returns in that
\* step the SHIORI/3.0 response 500 Internal Server Error, the service not
\* being called; a request whose service was called found a context.
C25_RequestWithoutContextIsAnError ==
    /\ [](\A t \in Tasks :
            (rt.task[t].op = "request" /\ rt.task[t].pc = "done") =>
                /\ rt.task[t].out.kind = "response"
                /\ ~rt.task[t].seen.some =>
                     (rt.task[t].out = ErrorResponse /\ ~rt.task[t].ctx.some))
    /\ [][\A t \in Tasks :
            /\ (rt.task[t].op = "request" /\ Acquires(t) /\ ~rt.context.some) =>
                 /\ Returns(t, "request")
                 /\ rt'.task[t].out = ErrorResponse
                 /\ rt'.handled = rt.handled
                 /\ rt'.readers = rt.readers
            /\ (rt.task[t].op = "request" /\ rt'.handled # rt.handled /\ Acquires(t)) =>
                 rt.context.some]_vars

\* after a load, a request answered by the service and an unload, a
\* second request is answered with the error response
C25_Witness ==
    /\ ~rt.context.some
    /\ rt.loads = 1
    /\ rt.handled = 1
    /\ \E t, u \in Tasks :
         /\ rt.task[t].op = "request" /\ rt.task[t].pc = "done"
         /\ rt.task[t].seen.some /\ rt.task[t].out.status_code = "OK"
         /\ rt.task[u].op = "request" /\ rt.task[u].pc = "done"
         /\ ~rt.task[u].seen.some /\ rt.task[u].out = ErrorResponse

\* the tasks whose service call is running
InFlight == { t \in Tasks : rt.task[t].op = "request" /\ rt.task[t].pc = "handling" }

\* C26: the requests whose service call is running are the holders of the
\* read guard; while there is one a context is loaded and each of them was
\* given that context; in a step taken while a service call is running the
\* context does not change and no load or unload returns.
C26_HandlersExcludeLoadAndUnload ==
    /\ [](/\ InFlight = rt.readers
          /\ InFlight # {} =>
               /\ rt.context.some
               /\ \A t \in InFlight : rt.task[t].ctx = rt.context)
    /\ [][InFlight # {} =>
            /\ rt'.context = rt.context
            /\ \A t \in Tasks : ~Returns(t, "load") /\ ~Returns(t, "unload")]_vars

\* two service calls are running and an unload waits for them
C26_Witness ==
    /\ Cardinality(InFlight) = 2
    /\ Len(rt.queue) > 0
    /\ rt.task[Head(rt.queue)].op = "unload"

\* C30: a load whose ContextData::new fails returns the error of new and
\* leaves no context; from then until a load succeeds no context is loaded,
\* a request that gets the lock returns 500 Internal Server Error, an
\* unload that gets it returns "context not loaded", and a load of a path
\* for which new succeeds returns Ok and leaves a context loaded.
C30_FailedLoadLeavesTheRuntimeUnloaded ==
    /\ [](rt.new_failed => (~rt.context.some /\ rt.readers = {}))
    /\ [][\A t \in Tasks :
            /\ ( /\ Returns(t, "load")
                 /\ ~rt.context.some
                 /\ ~ContextData_new(rt.task[t].path).ok ) =>
                 /\ rt'.task[t].out = Returned("err", ContextData_new(rt.task[t].path).err)
                 /\ rt'.context = NoContext
                 /\ rt'.new_failed
            /\ (rt.new_failed /\ Acquires(t)) =>
                 /\ rt.task[t].op = "request" => rt'.task[t].out = ErrorResponse
                 /\ rt.task[t].op = "unload" =>
                      rt'.task[t].out = Returned("err", "context not loaded")
                 /\ (rt.task[t].op = "load" /\ ContextData_new(rt.task[t].path).ok) =>
                      /\ rt'.task[t].out = Returned("ok", "none")
                      /\ rt'.context = SomeContext(rt.task[t].path, rt.loads + 1)]_vars

\* a load has failed in ContextData::new, then a request was answered 500
\* and an unload was refused, and no load has succeeded since
C30_Witness ==
    /\ rt.new_failed
    /\ rt.loads = 0
    /\ \E t, u, v \in Tasks :
         /\ rt.task[t].op = "load" /\ rt.task[t].out = Returned("err", "new failed")
         /\ rt.task[u].op = "request" /\ rt.task[u].out = ErrorResponse
         /\ rt.task[v].op = "unload"
         /\ rt.task[v].out = Returned("err", "context not loaded")

\* C27: on every input the version-dispatching parse returns what the
\* SHIORI/3.0 parser returns: Ok with the same message where that parser
\* accepts, an error where it rejects.
C27_DispatcherAgreesWithV3Parser ==
    (pc = "parsed" /\ res.via = "types") =>
        LET r == parse(proto, wire)
        IN  IF r.ok THEN res.kind = "Ok" /\ res.msg = r.val
            ELSE res.kind = "Err"

\* a non-empty sequence of token bytes
is_token(name) == Len(name) > 0 /\ \A i \in 1..Len(name) : IsTokenByte(name[i])

\* C28: every header name of an accepted message is a non-empty token, and
\* from_static and from_bytes reject the empty name.
C28_HeaderNamesAreNonEmptyTokens ==
    /\ Accepted =>
         \A i \in 1..bag_len(res.msg.headers) : is_token(bag_iter(res.msg.headers)[i][1])
    /\ ~HeaderName_from_static(<<>>).ok
    /\ ~HeaderName_from_bytes(<<>>).ok

\* the keys under which position p is stored
keys_of_position(b, p) ==
    { k \in DOMAIN b.map : \E i \in 1..Len(b.map[k]) : b.map[k][i] = p }

\* C29: after any sequence of inserts every position stored under a key is
\* less than len() and is the position of an entry with that key, the
\* positions of a key are strictly increasing, and every position below
\* len() is stored under exactly one key.
C29_PositionIndexIsConsistent ==
    /\ \A k \in DOMAIN bag.map :
         /\ Len(bag.map[k]) > 0
         /\ \A i \in 1..Len(bag.map[k]) :
              /\ bag.map[k][i] \in 0..(bag_len(bag) - 1)
              /\ bag_iter(bag)[bag.map[k][i] + 1][1] = k
         /\ \A i, j \in 1..Len(bag.map[k]) : i < j => bag.map[k][i] < bag.map[k][j]
    /\ \A p \in 0..(bag_len(bag) - 1) : Cardinality(keys_of_position(bag, p)) = 1

\* three inserts, the first and the third under the same key
C29_Witness ==
    /\ bag_len(bag) = 3
    /\ \E k, l \in DOMAIN bag.map : bag.map[k] = <<0, 2>> /\ bag.map[l] = <<1>>

====
